---- MODULE Spec2Model ----
(***************************************************************************)
(* A model of P037_ExpProgram_2023-06-09.py: the MainScreen object of the  *)
(* P037 suboptimal-choice task (trial order generation, the forced-choice  *)
(* quotas, the trial stages driven by key pecks and Tk timers, the data    *)
(* frame).                                                                 *)
(*                                                                         *)
(* Handlers are written as operators from a state record to a state record *)
(* (Python's sequential statements become nested LETs); an action commits  *)
(* the record a whole handler returns.  Python list indices are kept:      *)
(* Item(l, c) is l[c].                                                     *)
(***************************************************************************)
EXTENDS Integers, Sequences, FiniteSets, TLC

VARIABLES
    pc,                              \* where the program is: start screen, ordering loop, running, exited
    training_phase,                  \* self.training_phase (0 pre-training, 1 choice training)
    preTraining_FR,                  \* self.preTraining_FR
    record_data,                     \* self.record_data
    settings_dict,                   \* the subject's row of the settings csv
    informative_side,                \* self.informative_side
    noninformative_side,             \* self.noninformative_side
    trials_per_session,              \* self.trials_per_session
    trial_option_list,               \* trial_option_list (local of first_ITI, shuffled in place)
    trial_order_list,                \* self.trial_order_list
    forced_I_choice_outcome_list,    \* self.forced_I_choice_outcome_list
    forced_NI_choice_outcome_list,   \* self.forced_NI_choice_outcome_list
    forced_NI_choice_feedback_list,  \* self.forced_NI_choice_feedback_list
    current_trial_counter,           \* self.current_trial_counter
    reinforcers_provided,            \* self.reinforcers_provided
    rejected_trial,                  \* self.rejected_trial
    choice,                          \* self.choice
    choice_key_FR,                   \* self.choice_key_FR
    trial_type,                      \* self.trial_type
    trial_stage,                     \* self.trial_stage
    feedback_stimulus,               \* self.feedback_stimulus
    canvas,                          \* items on self.mastercanvas, bottom to top
    timers,                          \* callbacks scheduled with self.root.after and not yet run
    hopper,                          \* state of self.Hopper
    session_data_frame,              \* self.session_data_frame
    csv_file,                        \* rows of the session's .csv as last written
    tracebacks,                      \* exceptions raised by callbacks so far
    other_sessions,                  \* MainScreen objects the Start button has made since, not yet ended
    session_duration                 \* self.session_duration against the clock: "ahead" or "passed"

vars == << pc, training_phase, preTraining_FR, record_data, settings_dict,
           informative_side, noninformative_side, trials_per_session,
           trial_option_list, trial_order_list, forced_I_choice_outcome_list,
           forced_NI_choice_outcome_list, forced_NI_choice_feedback_list,
           current_trial_counter, reinforcers_provided, rejected_trial, choice,
           choice_key_FR, trial_type, trial_stage, feedback_stimulus, canvas,
           timers, hopper, session_data_frame, csv_file, tracebacks, other_sessions,
           session_duration >>

\* The program's state as one record, and the commit of a handler's result.
\* exc is set while a handler runs once a statement has raised: the statements
\* after it are skipped and Tk reports the exception and goes on.
S ==
    [ pc |-> pc, training_phase |-> training_phase, preTraining_FR |-> preTraining_FR,
      record_data |-> record_data, settings_dict |-> settings_dict,
      informative_side |-> informative_side, noninformative_side |-> noninformative_side,
      trials_per_session |-> trials_per_session, trial_option_list |-> trial_option_list,
      trial_order_list |-> trial_order_list,
      forced_I_choice_outcome_list |-> forced_I_choice_outcome_list,
      forced_NI_choice_outcome_list |-> forced_NI_choice_outcome_list,
      forced_NI_choice_feedback_list |-> forced_NI_choice_feedback_list,
      current_trial_counter |-> current_trial_counter,
      reinforcers_provided |-> reinforcers_provided, rejected_trial |-> rejected_trial,
      choice |-> choice, choice_key_FR |-> choice_key_FR, trial_type |-> trial_type,
      trial_stage |-> trial_stage, feedback_stimulus |-> feedback_stimulus,
      canvas |-> canvas, timers |-> timers, hopper |-> hopper,
      session_data_frame |-> session_data_frame, csv_file |-> csv_file,
      tracebacks |-> tracebacks, other_sessions |-> other_sessions,
      session_duration |-> session_duration, exc |-> FALSE ]

Commit(n) ==
    /\ pc' = n.pc
    /\ training_phase' = n.training_phase
    /\ preTraining_FR' = n.preTraining_FR
    /\ record_data' = n.record_data
    /\ settings_dict' = n.settings_dict
    /\ informative_side' = n.informative_side
    /\ noninformative_side' = n.noninformative_side
    /\ trials_per_session' = n.trials_per_session
    /\ trial_option_list' = n.trial_option_list
    /\ trial_order_list' = n.trial_order_list
    /\ forced_I_choice_outcome_list' = n.forced_I_choice_outcome_list
    /\ forced_NI_choice_outcome_list' = n.forced_NI_choice_outcome_list
    /\ forced_NI_choice_feedback_list' = n.forced_NI_choice_feedback_list
    /\ current_trial_counter' = n.current_trial_counter
    /\ reinforcers_provided' = n.reinforcers_provided
    /\ rejected_trial' = n.rejected_trial
    /\ choice' = n.choice
    /\ choice_key_FR' = n.choice_key_FR
    /\ trial_type' = n.trial_type
    /\ trial_stage' = n.trial_stage
    /\ feedback_stimulus' = n.feedback_stimulus
    /\ canvas' = n.canvas
    /\ timers' = n.timers
    /\ hopper' = n.hopper
    /\ session_data_frame' = n.session_data_frame
    /\ csv_file' = n.csv_file
    /\ tracebacks' = n.tracebacks
    /\ other_sessions' = n.other_sessions
    /\ session_duration' = n.session_duration

\* A value for an attribute that has not been assigned yet.
Unset == "unset"

\* The same for an attribute that holds an integer.
UnsetInt == 0 - 1000

\* No .csv has been written (a written file holds the header row at least).
NoFile == << >>

----------------------------------------------------------------------------
(* Python lists *)

Item(l, c) == l[c + 1]

Times(l, n) == [i \in 1..(Len(l) * n) |-> l[((i - 1) % Len(l)) + 1]]

Count(l, x) == Cardinality({i \in 1..Len(l) : l[i] = x})

Elements(l) == {l[i] : i \in 1..Len(l)}

Reverse(l) == [i \in 1..Len(l) |-> l[Len(l) + 1 - i]]

\* list.remove(x): the first occurrence of x is removed.
FirstIndex(l, x) == CHOOSE i \in 1..Len(l) : l[i] = x /\ \A j \in 1..(i - 1) : l[j] # x

\* (the last entry removed, whatever x is)
RemoveLast(l, x) == SubSeq(l, 1, Len(l) - 1)

\* (nothing removed)
RemoveNothing(l, x) == l

Remove(l, x) ==
    LET i == FirstIndex(l, x) IN [j \in 1..(Len(l) - 1) |-> IF j < i THEN l[j] ELSE l[j + 1]]

Min(a, b) == IF a < b THEN a ELSE b

----------------------------------------------------------------------------
(* The trial types and the session's trial lists (first_ITI, lines 474-496) *)

PreTrainingKeys ==
    << "rejection_key", "left_choice_key", "right_choice_key", "ll_feedback_key",
       "lr_feedback_key", "rl_feedback_key", "rr_feedback_key" >>

ChoiceTrialTypes ==
    << "forced_choice-informative", "forced_choice-noninformative",
       "rejection-informative", "rejection-noninformative", "free_choice" >>

PreTrainingTrials == 56

ChoiceTrials == 100

PreTrainingOptionList == Times(PreTrainingKeys, 8)

\* (one tag of the list misspelt)
ChoiceOptionListMisspelt ==
    Times(<< "forced_choice-informative", "forced_choice-noninformative" >>, 10)
        \o Times(<< "rejection-informative", "rejection_noninformative" >>, 10)
        \o Times(<< "free_choice" >>, 10)

ChoiceOptionList ==
    Times(<< "forced_choice-informative", "forced_choice-noninformative" >>, 10)
        \o Times(<< "rejection-informative", "rejection-noninformative" >>, 10)
        \o Times(<< "free_choice" >>, 10)

----------------------------------------------------------------------------
(* shuffle(trial_option_list), line 519: some permutation of the list.  The
   permutations followed are arrangements of the entries of the program's two
   lists: the tags in runs of a chosen length, taken in a rotated tag order,
   optionally reversed, with a further run of 0..MaxHead copies of the first
   tag moved to the front. *)

MaxRun == 4

MaxRot == 4

MaxHead == 1

Rep(x, k) == [i \in 1..k |-> x]

Rotate(l, r) == [i \in 1..Len(l) |-> l[((i - 1 + r) % Len(l)) + 1]]

\* The tags of a list, in the order of their first entries.
FirstEntries(l) == {i \in 1..Len(l) : \A j \in 1..(i - 1) : l[j] # l[i]}

TagsOf(l) ==
    LET first == FirstEntries(l) IN
    [k \in 1..Cardinality(first) |->
        l[CHOOSE i \in first : Cardinality({j \in first : j <= i}) = k]]

Max(a, b) == IF a > b THEN a ELSE b

\* Round k of a layout: up to run further copies of each tag that has some left.
RECURSIVE Round(_, _, _, _)
Round(tags, cnt, run, k) ==
    IF tags = << >> THEN << >>
    ELSE Rep(Head(tags), Min(run, Max(0, cnt[Head(tags)] - (k - 1) * run)))
            \o Round(Tail(tags), cnt, run, k)

RECURSIVE LayoutFrom(_, _, _, _)
LayoutFrom(tags, cnt, run, k) ==
    IF \A x \in Elements(tags) : cnt[x] <= (k - 1) * run THEN << >>
    ELSE Round(tags, cnt, run, k) \o LayoutFrom(tags, cnt, run, k + 1)

Layout(tags, cnt, run) == LayoutFrom(tags, cnt, run, 1)

Arrange(l, f) ==
    LET tags == Rotate(TagsOf(l), f.rot)
        cnt == [x \in Elements(l) |-> Count(l, x)]
        first == Head(tags)
        h == Min(f.head, cnt[first])
        body == Layout(tags, [cnt EXCEPT ![first] = cnt[first] - h], f.run)
        tail == IF f.rev THEN Reverse(body) ELSE body
    IN  Rep(first, h) \o tail

SameEntries(a, b) ==
    /\ Len(a) = Len(b)
    /\ \A x \in Elements(a) \cup Elements(b) : Count(a, x) = Count(b, x)

Candidates(fam) ==
    {Arrange(l, f) : l \in {PreTrainingOptionList, ChoiceOptionList}, f \in fam}

\* The arrangements followed by SpecOrder, by Spec and by SpecSession.
OrderShuffles ==
    Candidates([run : 1..MaxRun, rot : {0}, rev : BOOLEAN, head : 0..MaxHead])

OpenShuffles ==
    Candidates([run : {1}, rot : 0..MaxRot, rev : {FALSE}, head : {0}])

WholeShuffles ==
    Candidates([run : {3}, rot : {0}, rev : {TRUE}, head : {0}])

ShuffleOutcomes(l, cands) == {p \in cands : SameEntries(p, l)}

----------------------------------------------------------------------------
(* The approval loop of first_ITI, lines 520-527 *)

RECURSIVE ApprovalLoop(_, _)
ApprovalLoop(l, c) ==
    IF ~(c < Len(l)) THEN TRUE
    ELSE IF c > 3 /\ Item(l, c) = Item(l, c - 1) /\ Item(l, c) = Item(l, c - 2)
                  /\ Item(l, c) = Item(l, c - 3)
         THEN FALSE
         ELSE ApprovalLoop(l, c + 1)

Approved(l) == ApprovalLoop(l, 0)

----------------------------------------------------------------------------
(* Settings, colours and the key dictionaries *)

\* Rows of P037_Settings-Assignments.csv for the subject (lines 429-447).
SettingsRows ==
    { [ side |-> sd, other |-> IF sd = "Left" THEN "Right" ELSE "Left",
        Iplus |-> "green", Iminus |-> "red", NIplus |-> "yellow", NIminus |-> "blue",
        hopper_ms |-> "3000", fi_ms |-> "1000" ]
      : sd \in {"Left", "Right"} }

\* settings_dict = "NA": the file is not there or has no row of the subject
\* (lines 417-433).
NoRow ==
    [ side |-> "NA", other |-> "NA", Iplus |-> "NA", Iminus |-> "NA", NIplus |-> "NA",
      NIminus |-> "NA", hopper_ms |-> "NA", fi_ms |-> "NA" ]

\* Rows the csv can hold that are not well formed: a duration that is not a
\* number, an informative side that is neither "Left" nor "Right".
MalformedRows ==
    { [r EXCEPT !.hopper_ms = "3 s"] : r \in SettingsRows }
        \cup { [r EXCEPT !.fi_ms = "one"] : r \in SettingsRows }
        \cup { [r EXCEPT !.side = "left"] : r \in {x \in SettingsRows : x.side = "Left"} }

\* int(text) returns for these and raises ValueError for other text.
NumericText == {"3000", "1000"}

\* (the S- colour of the informative side given for its S+)
informative_Splus_colorAsSminus(s) == s.settings_dict.Iminus

informative_Splus_color(s) == s.settings_dict.Iplus

informative_Sminus_color(s) == s.settings_dict.Iminus

noninformative_Splus_color(s) == s.settings_dict.NIplus

noninformative_Sminus_color(s) == s.settings_dict.NIminus

\* self.informative_prob and self.noninformative_prob, in hundredths (lines 373-374).
informative_prob == 20

noninformative_prob == 50

\* The number the quota lists are sized for (the literal 20 of lines 507-509).
ForcedTrialsAssumed == 20

\* (a product that falls just short of the whole number)
IntOfProductShort(p, n) == (p * n - 1) \div 100

\* int(p * n) and int((1 - p) * n) for p in hundredths.
IntOfProduct(p, n) == (p * n) \div 100

Lower(side) == IF side = "Left" THEN "left" ELSE IF side = "Right" THEN "right" ELSE side

\* self.key_color_dict, as the list of its (key, colour) items in insertion
\* order (lines 451-468).
key_color_dict(s) ==
    IF s.informative_side = "Left"
    THEN << << "left_choice_key", "white" >>, << "right_choice_key", "white" >>,
            << "ll_feedback_key", informative_Splus_color(s) >>,
            << "lr_feedback_key", informative_Sminus_color(s) >>,
            << "rl_feedback_key", noninformative_Splus_color(s) >>,
            << "rr_feedback_key", noninformative_Sminus_color(s) >>,
            << "rejection_key", "darkslategrey" >> >>
    ELSE IF s.informative_side = "Right"
    THEN << << "left_choice_key", "white" >>, << "right_choice_key", "white" >>,
            << "ll_feedback_key", noninformative_Splus_color(s) >>,
            << "lr_feedback_key", noninformative_Sminus_color(s) >>,
            << "rl_feedback_key", informative_Splus_color(s) >>,
            << "rr_feedback_key", informative_Sminus_color(s) >>,
            << "rejection_key", "white" >> >>
    ELSE << >>

\* key_color_dict[key]
ColorOfKey(s, key) ==
    LET d == key_color_dict(s) IN d[CHOOSE i \in 1..Len(d) : d[i][1] = key][2]

\* list(dict.keys())[list(dict.values()).index(colour)], line 725
KeyOfColor(s, colour) ==
    LET d == key_color_dict(s)
        i == CHOOSE i \in 1..Len(d) : d[i][2] = colour /\ \A j \in 1..(i - 1) : d[j][2] # colour
    IN  d[i][1]

----------------------------------------------------------------------------
(* Substring and split tests on the program's tags *)

\* "rejection" in tag
HasRejection(tag) ==
    tag \in { "rejection_key", "rejection-informative", "rejection-noninformative",
              "rejection_key_peck", "rejection-informative_peck",
              "rejection-noninformative_peck" }

\* (only the informative forced type recognised)
HasForcedInformative(tag) == tag = "forced_choice-informative"

\* ("choice" in tag)
HasChoice(tag) ==
    tag \in {"forced_choice-informative", "forced_choice-noninformative", "free_choice"}

\* (the rejection trial types taken as forced too)
HasForcedOrRejection(tag) ==
    tag \in { "forced_choice-informative", "forced_choice-noninformative",
              "rejection-informative", "rejection-noninformative" }

\* "forced" in tag
HasForced(tag) == tag \in {"forced_choice-informative", "forced_choice-noninformative"}

\* tag.split("_")[0]
SplitHead(tag) ==
    CASE tag = "left_choice_key" -> "left"
      [] tag = "right_choice_key" -> "right"
      [] tag = "rejection_key" -> "rejection"
      [] tag = "ll_feedback_key" -> "ll"
      [] tag = "lr_feedback_key" -> "lr"
      [] tag = "rl_feedback_key" -> "rl"
      [] tag = "rr_feedback_key" -> "rr"
      [] OTHER -> tag

\* f"{side.lower()}_choice_key"
ChoiceKeyOf(side) ==
    IF Lower(side) = "left" THEN "left_choice_key"
    ELSE IF Lower(side) = "right" THEN "right_choice_key"
    ELSE "other_choice_key"

----------------------------------------------------------------------------
(* The canvas: items bottom to top, each with its tag and the screen regions
   it covers, and the event type bound to the tag "bkgrd".  A click goes to
   the topmost item covering the clicked region. *)

Regions == {"left", "center", "right"}

\* key_coord_dict (lines 767-774): the region of each key.
KeyRegion(key) ==
    CASE key \in {"left_choice_key", "ll_feedback_key", "lr_feedback_key"} -> "left"
      [] key \in {"right_choice_key", "rl_feedback_key", "rr_feedback_key"} -> "right"
      [] key = "rejection_key" -> "center"

\* choice_key_coord_matrix (lines 936-937): the regions the two covers hide.
CoverRegions == << {"left"}, {"right"} >>

CreateItem(s, tag, at) ==
    [s EXCEPT !.canvas.items = Append(@, [tag |-> tag, at |-> at])]

TagBindBkgrd(s, event_type) == [s EXCEPT !.canvas.bkgrd = event_type]

clear_canvas(s) == [s EXCEPT !.canvas.items = << >>]

\* The tag of the item a click at region r reaches, or "none".
ItemAt(cv, r) ==
    LET hits == {i \in 1..Len(cv.items) : r \in cv.items[i].at}
    IN  IF hits = {} THEN "none"
        ELSE cv.items[CHOOSE i \in hits : \A j \in hits : j <= i].tag

Raise(s, e) == [s EXCEPT !.exc = TRUE, !.tracebacks = @ \cup {e}]

After(s, callback) == [s EXCEPT !.timers = Append(@, callback)]

----------------------------------------------------------------------------
(* write_data, lines 1069-1125 *)

\* f"{keytag}_peck" and, back, outcome[:-5]
PeckTag(keytag) ==
    CASE keytag = "left_choice_key" -> "left_choice_key_peck"
      [] keytag = "right_choice_key" -> "right_choice_key_peck"
      [] keytag = "ll_feedback_key" -> "ll_feedback_key_peck"
      [] keytag = "lr_feedback_key" -> "lr_feedback_key_peck"
      [] keytag = "rl_feedback_key" -> "rl_feedback_key_peck"
      [] keytag = "rr_feedback_key" -> "rr_feedback_key_peck"

KeyOfPeck(outcome) ==
    CASE outcome = "ll_feedback_key_peck" -> "ll_feedback_key"
      [] outcome = "lr_feedback_key_peck" -> "lr_feedback_key"
      [] outcome = "rl_feedback_key_peck" -> "rl_feedback_key"
      [] outcome = "rr_feedback_key_peck" -> "rr_feedback_key"

\* side.lower() in outcome, for the two choice-key peck tags
SideIn(side, outcome) ==
    \/ Lower(side) = "left" /\ outcome = "left_choice_key_peck"
    \/ Lower(side) = "right" /\ outcome = "right_choice_key_peck"

\* (the left side taken as the informative one whatever the settings say)
ExpOutcomeLeftInformative(s, outcome) ==
    CASE outcome = "left_choice_key_peck" -> "informative_key_peck"
      [] outcome = "right_choice_key_peck" -> "uninformative_key_peck"
      [] outcome = "ll_feedback_key_peck" -> "informative_Splus_peck"
      [] outcome = "lr_feedback_key_peck" -> "informative_Sminus_peck"
      [] outcome = "rl_feedback_key_peck" -> "noninformative_Splus_peck"
      [] outcome = "rr_feedback_key_peck" -> "noninformative_Sminus_peck"
      [] HasRejection(outcome) -> "rejection_key_peck"
      [] OTHER -> outcome

\* The translation of lines 1081-1101; Unset where no branch assigns exp_outcome.
ExpOutcome(s, outcome) ==
    IF outcome \in {"left_choice_key_peck", "right_choice_key_peck"}
    THEN IF SideIn(s.informative_side, outcome) THEN "informative_key_peck"
         ELSE IF SideIn(s.noninformative_side, outcome) THEN "uninformative_key_peck"
         ELSE Unset
    ELSE IF outcome \in { "ll_feedback_key_peck", "lr_feedback_key_peck",
                          "rl_feedback_key_peck", "rr_feedback_key_peck" }
    THEN LET col == ColorOfKey(s, KeyOfPeck(outcome)) IN
         IF col = informative_Splus_color(s) THEN "informative_Splus_peck"
         ELSE IF col = informative_Sminus_color(s) THEN "informative_Sminus_peck"
         ELSE IF col = noninformative_Splus_color(s) THEN "noninformative_Splus_peck"
         ELSE IF col = noninformative_Sminus_color(s) THEN "noninformative_Sminus_peck"
         ELSE Unset
    ELSE IF HasRejection(outcome) THEN "rejection_key_peck"
    ELSE outcome

\* One row of the data frame.  where is the clicked region (event.x, event.y)
\* or "NA"; the clock columns and the columns fixed for the session are left out.
DataRow(s, where, outcome) ==
    [ Xcord |-> where, Ycord |-> where, LocationEvent |-> outcome,
      ExperimentalEvent |-> ExpOutcome(s, outcome), TrialStage |-> s.trial_stage,
      TrialFR |-> s.choice_key_FR, TrialNum |-> s.current_trial_counter,
      ReinforcersProvided |-> s.reinforcers_provided, TrialType |-> s.trial_type,
      RejectedTrial |-> s.rejected_trial ]

\* The print of line 1104 and the row of lines 1106-1125 read attributes that
\* are assigned only by first_ITI, ITI and initial_links_stage.
write_data(s, where, outcome) ==
    IF s.trial_stage = UnsetInt \/ s.trial_type = Unset THEN Raise(s, "AttributeError")
    ELSE IF ExpOutcome(s, outcome) = Unset THEN Raise(s, "UnboundLocalError")
    ELSE [s EXCEPT !.session_data_frame = Append(@, DataRow(s, where, outcome))]

\* (the file written before the row of the session's end is appended)
write_comp_dataStale(s, SessionEnded) ==
    LET s1 == IF s.record_data THEN [s EXCEPT !.csv_file = s.session_data_frame] ELSE s
    IN  IF SessionEnded THEN write_data(s1, "NA", "SessionEnds") ELSE s1

\* (the file opened for appending, not for writing)
write_comp_dataAppending(s, SessionEnded) ==
    LET s1 == IF SessionEnded THEN write_data(s, "NA", "SessionEnds") ELSE s IN
    IF s1.exc THEN s1
    ELSE IF s1.record_data THEN [s1 EXCEPT !.csv_file = @ \o s1.session_data_frame]
    ELSE s1

\* write_comp_data, lines 1137-1154
write_comp_data(s, SessionEnded) ==
    LET s1 == IF SessionEnded THEN write_data(s, "NA", "SessionEnds") ELSE s IN
    IF s1.exc THEN s1
    ELSE IF s1.record_data THEN [s1 EXCEPT !.csv_file = s1.session_data_frame]
    ELSE s1

----------------------------------------------------------------------------
(* build_keys, lines 738-865 *)

\* (the key the trial began with is shown again)
RejectedTrialKeysSame(s) ==
    IF s.trial_type = "rejection-noninformative"
    THEN << ChoiceKeyOf(s.noninformative_side) >>
    ELSE IF s.trial_type = "rejection-informative"
         THEN << ChoiceKeyOf(s.informative_side) >>
         ELSE << >>

\* The keys of a rejected trial, lines 796-800.
RejectedTrialKeys(s) ==
    IF s.trial_type = "rejection-noninformative"
    THEN << ChoiceKeyOf(s.informative_side) >>
    ELSE IF s.trial_type = "rejection-informative"
         THEN << ChoiceKeyOf(s.noninformative_side) >>
         ELSE << >>

\* (the two sides exchanged in the initial links)
key_str_list_to_buildSidesExchanged(s) ==
    IF s.training_phase = 0 THEN << s.trial_type >>
    ELSE IF s.training_phase = 1
    THEN IF s.trial_stage = 0
         THEN IF ~s.rejected_trial
              THEN (IF s.trial_type \in { "forced_choice-informative",
                                          "rejection-informative", "free_choice" }
                    THEN << ChoiceKeyOf(s.noninformative_side) >> ELSE << >>)
                   \o (IF s.trial_type \in { "rejection-noninformative",
                                             "forced_choice-noninformative", "free_choice" }
                       THEN << ChoiceKeyOf(s.informative_side) >> ELSE << >>)
                   \o (IF s.trial_type \in {"rejection-noninformative", "rejection-informative"}
                       THEN << "rejection_key" >> ELSE << >>)
              ELSE RejectedTrialKeys(s)
         ELSE IF s.trial_stage = 1 THEN << s.feedback_stimulus >>
         ELSE << >>
    ELSE << >>

key_str_list_to_build(s) ==
    IF s.training_phase = 0 THEN << s.trial_type >>
    ELSE IF s.training_phase = 1
    THEN IF s.trial_stage = 0
         THEN IF ~s.rejected_trial
              THEN (IF s.trial_type \in { "forced_choice-informative",
                                          "rejection-informative", "free_choice" }
                    THEN << ChoiceKeyOf(s.informative_side) >> ELSE << >>)
                   \o (IF s.trial_type \in { "rejection-noninformative",
                                             "forced_choice-noninformative", "free_choice" }
                       THEN << ChoiceKeyOf(s.noninformative_side) >> ELSE << >>)
                   \o (IF s.trial_type \in {"rejection-noninformative", "rejection-informative"}
                       THEN << "rejection_key" >> ELSE << >>)
              ELSE RejectedTrialKeys(s)
         ELSE IF s.trial_stage = 1 THEN << s.feedback_stimulus >>
         ELSE << >>
    ELSE << >>

RECURSIVE BuildEach(_, _)
BuildEach(s, keys) ==
    IF keys = << >> THEN s
    ELSE BuildEach(CreateItem(s, Head(keys), {KeyRegion(Head(keys))}), Tail(keys))

build_keys(s) ==
    LET s1 == TagBindBkgrd(CreateItem(s, "bkgrd", Regions), "background_peck")
    IN  IF key_str_list_to_build(s1) # << >> /\ key_color_dict(s1) = << >>
        THEN Raise(s1, "AttributeError")
        ELSE BuildEach(s1, key_str_list_to_build(s1))

\* initial_links_stage, lines 663-668
initial_links_stage(s) ==
    build_keys([clear_canvas(s) EXCEPT !.trial_stage = 0])

----------------------------------------------------------------------------
(* provide_food, lines 962-982 *)

\* (no row written for the reinforcer)
provide_foodUnlogged(s) ==
    After([clear_canvas(s) EXCEPT !.reinforcers_provided = @ + 1, !.hopper = "On"], "ITI")

\* (the hopper timer of lines 981-982 not set: nothing leads on to the ITI)
provide_foodNoTimer(s) ==
    LET s1 == write_data(clear_canvas(s), "NA", "reinforcer_provided") IN
    IF s1.exc THEN s1
    ELSE [s1 EXCEPT !.reinforcers_provided = @ + 1, !.hopper = "On"]

provide_food(s) ==
    LET s1 == write_data(clear_canvas(s), "NA", "reinforcer_provided") IN
    IF s1.exc THEN s1
    ELSE After([s1 EXCEPT !.reinforcers_provided = @ + 1, !.hopper = "On"], "ITI")

----------------------------------------------------------------------------
(* feedback_stage, lines 670-736.  rnd holds what the random module returns in
   the call: u1 and u2 the uniform(0,1) draws in hundredths, outcome and colour
   the elements choice() picks from the quota lists. *)

Draws == {20, 21, 50, 51}

\* (the two timers exchanged)
FeedbackResolvedSwapped(s, reinforced, feedback_color) ==
    LET s1 == build_keys([s EXCEPT !.feedback_stimulus = KeyOfColor(s, feedback_color)])
    IN  After(s1, IF reinforced THEN "ITI" ELSE "provide_food")

FeedbackResolved(s, reinforced, feedback_color) ==
    LET s1 == build_keys([s EXCEPT !.feedback_stimulus = KeyOfColor(s, feedback_color)])
    IN  After(s1, IF reinforced THEN "provide_food" ELSE "ITI")

\* (on the non-informative side the colour made to follow the outcome)
feedback_stageCorrelated(s, rnd) ==
    LET s0 == [clear_canvas(s) EXCEPT !.trial_stage = 1] IN
    IF SplitHead(s0.choice) = Lower(s0.informative_side)
    THEN IF ~HasForced(s0.trial_type)
         THEN IF rnd.u1 <= informative_prob
              THEN FeedbackResolved(s0, TRUE, informative_Splus_color(s0))
              ELSE FeedbackResolved(s0, FALSE, informative_Sminus_color(s0))
         ELSE IF s0.forced_I_choice_outcome_list = << >> THEN Raise(s0, "IndexError")
              ELSE LET s1 == [s0 EXCEPT !.forced_I_choice_outcome_list = Remove(@, rnd.outcome)]
                   IN  IF rnd.outcome = "win"
                       THEN FeedbackResolved(s1, TRUE, informative_Splus_color(s1))
                       ELSE FeedbackResolved(s1, FALSE, informative_Sminus_color(s1))
    ELSE IF ~HasForced(s0.trial_type)
         THEN FeedbackResolved(s0, rnd.u1 <= noninformative_prob,
                               IF rnd.u1 <= noninformative_prob
                               THEN noninformative_Splus_color(s0)
                               ELSE noninformative_Sminus_color(s0))
         ELSE IF s0.forced_NI_choice_outcome_list = << >> THEN Raise(s0, "IndexError")
              ELSE LET s1 == [s0 EXCEPT !.forced_NI_choice_outcome_list = Remove(@, rnd.outcome)]
                   IN  IF s1.forced_NI_choice_feedback_list = << >> THEN Raise(s1, "IndexError")
                       ELSE FeedbackResolved(
                                [s1 EXCEPT !.forced_NI_choice_feedback_list = Remove(@, rnd.colour)],
                                rnd.colour = noninformative_Splus_color(s1), rnd.colour)

feedback_stage(s, rnd) ==
    LET s0 == [clear_canvas(s) EXCEPT !.trial_stage = 1] IN
    IF SplitHead(s0.choice) = Lower(s0.informative_side)
    THEN IF ~HasForced(s0.trial_type)
         THEN IF rnd.u1 <= informative_prob
              THEN FeedbackResolved(s0, TRUE, informative_Splus_color(s0))
              ELSE FeedbackResolved(s0, FALSE, informative_Sminus_color(s0))
         ELSE IF s0.forced_I_choice_outcome_list = << >> THEN Raise(s0, "IndexError")
              ELSE LET s1 == [s0 EXCEPT !.forced_I_choice_outcome_list = Remove(@, rnd.outcome)]
                   IN  IF rnd.outcome = "win"
                       THEN FeedbackResolved(s1, TRUE, informative_Splus_color(s1))
                       ELSE FeedbackResolved(s1, FALSE, informative_Sminus_color(s1))
    ELSE IF ~HasForced(s0.trial_type)
         THEN FeedbackResolved(s0, rnd.u1 <= noninformative_prob,
                               IF rnd.u2 <= informative_prob
                               THEN noninformative_Splus_color(s0)
                               ELSE noninformative_Sminus_color(s0))
         ELSE IF s0.forced_NI_choice_outcome_list = << >> THEN Raise(s0, "IndexError")
              ELSE LET s1 == [s0 EXCEPT !.forced_NI_choice_outcome_list = Remove(@, rnd.outcome)]
                   IN  IF s1.forced_NI_choice_feedback_list = << >> THEN Raise(s1, "IndexError")
                       ELSE FeedbackResolved(
                                [s1 EXCEPT !.forced_NI_choice_feedback_list = Remove(@, rnd.colour)],
                                rnd.outcome = "win", rnd.colour)

\* What the random module can return in a call of feedback_stage from state s:
\* the uniform draws in draws, any element of a quota list for choice().
RandomResults(s, draws) ==
    LET forced == HasForced(s.trial_type)
        inf == SplitHead(s.choice) = Lower(s.informative_side)
        outs == IF forced /\ inf THEN Elements(s.forced_I_choice_outcome_list)
                ELSE IF forced THEN Elements(s.forced_NI_choice_outcome_list)
                ELSE {}
        cols == IF forced /\ ~inf THEN Elements(s.forced_NI_choice_feedback_list) ELSE {}
    IN  [ u1 : IF forced THEN {0} ELSE draws,
          u2 : IF forced \/ inf THEN {0} ELSE draws,
          outcome : IF outs = {} THEN {"none"} ELSE outs,
          colour : IF cols = {} THEN {"none"} ELSE cols ]

----------------------------------------------------------------------------
(* exit_program, lines 1038-1066 *)

\* (the window is not destroyed)
exit_programNoDestroy(s) ==
    write_comp_data([clear_canvas(s) EXCEPT !.hopper = "Off"], TRUE)

exit_program(s) ==
    LET s1 == write_comp_data([clear_canvas(s) EXCEPT !.hopper = "Off"], TRUE) IN
    IF s1.exc THEN s1
    ELSE [s1 EXCEPT !.pc = "exited", !.timers = << >>]

(* ITI, lines 568-638 *)

\* (the session limit tested one trial early)
ITIEarly(s) ==
    LET s1 == TagBindBkgrd(CreateItem(clear_canvas(s), "bkgrd", Regions), "ITI_peck") IN
    IF s1.current_trial_counter + 1 = s1.trials_per_session THEN exit_program(s1)
    ELSE LET s2 == write_comp_data(
                       [s1 EXCEPT !.hopper = "Off", !.choice = "None",
                                  !.rejected_trial = FALSE], FALSE)
             s3 == [s2 EXCEPT !.choice_key_FR =
                                  IF s2.training_phase = 0 THEN s2.preTraining_FR ELSE 1,
                              !.trial_type = Item(s2.trial_order_list, s2.current_trial_counter),
                              !.current_trial_counter = @ + 1]
         IN  IF s2.training_phase = 0 /\ s2.preTraining_FR = UnsetInt
             THEN Raise(s2, "AttributeError")
             ELSE After(s3, "initial_links_stage")

\* (the data file not written in the interval)
ITIUnsaved(s) ==
    LET s1 == TagBindBkgrd(CreateItem(clear_canvas(s), "bkgrd", Regions), "ITI_peck") IN
    IF s1.current_trial_counter = s1.trials_per_session THEN exit_program(s1)
    ELSE LET s2 == [s1 EXCEPT !.hopper = "Off", !.choice = "None",
                              !.rejected_trial = FALSE]
             s3 == [s2 EXCEPT !.choice_key_FR =
                                  IF s2.training_phase = 0 THEN s2.preTraining_FR ELSE 1,
                              !.trial_type = Item(s2.trial_order_list, s2.current_trial_counter),
                              !.current_trial_counter = @ + 1]
         IN  IF s2.training_phase = 0 /\ s2.preTraining_FR = UnsetInt
             THEN Raise(s2, "AttributeError")
             ELSE After(s3, "initial_links_stage")

\* (the hopper left as it is on entering the interval)
ITIHopperLeft(s) ==
    LET s1 == TagBindBkgrd(CreateItem(clear_canvas(s), "bkgrd", Regions), "ITI_peck") IN
    IF s1.current_trial_counter = s1.trials_per_session THEN exit_program(s1)
    ELSE LET s2 == write_comp_data(
                       [s1 EXCEPT !.choice = "None", !.rejected_trial = FALSE], FALSE)
             s3 == [s2 EXCEPT !.choice_key_FR =
                                  IF s2.training_phase = 0 THEN s2.preTraining_FR ELSE 1,
                              !.trial_type = Item(s2.trial_order_list, s2.current_trial_counter),
                              !.current_trial_counter = @ + 1]
         IN  IF s2.training_phase = 0 /\ s2.preTraining_FR = UnsetInt
             THEN Raise(s2, "AttributeError")
             ELSE After(s3, "initial_links_stage")

\* (the choice and the rejected flag not reset, lines 615-616 left out)
ITIUnreset(s) ==
    LET s1 == TagBindBkgrd(CreateItem(clear_canvas(s), "bkgrd", Regions), "ITI_peck") IN
    IF s1.current_trial_counter = s1.trials_per_session THEN exit_program(s1)
    ELSE LET s2 == write_comp_data([s1 EXCEPT !.hopper = "Off"], FALSE)
             s3 == [s2 EXCEPT !.choice_key_FR =
                                  IF s2.training_phase = 0 THEN s2.preTraining_FR ELSE 1,
                              !.trial_type = Item(s2.trial_order_list, s2.current_trial_counter),
                              !.current_trial_counter = @ + 1]
         IN  IF s2.training_phase = 0 /\ s2.preTraining_FR = UnsetInt
             THEN Raise(s2, "AttributeError")
             ELSE After(s3, "initial_links_stage")

ITI(s) ==
    LET s1 == TagBindBkgrd(CreateItem(clear_canvas(s), "bkgrd", Regions), "ITI_peck") IN
    IF s1.current_trial_counter = s1.trials_per_session THEN exit_program(s1)
    ELSE LET s2 == write_comp_data(
                       [s1 EXCEPT !.hopper = "Off", !.choice = "None",
                                  !.rejected_trial = FALSE], FALSE)
             s3 == [s2 EXCEPT !.choice_key_FR =
                                  IF s2.training_phase = 0 THEN s2.preTraining_FR ELSE 1,
                              !.trial_type = Item(s2.trial_order_list, s2.current_trial_counter),
                              !.current_trial_counter = @ + 1]
         IN  IF s2.training_phase = 0 /\ s2.preTraining_FR = UnsetInt
             THEN Raise(s2, "AttributeError")
             ELSE After(s3, "initial_links_stage")

----------------------------------------------------------------------------
(* key_press, lines 908-955 *)

\* (without the test of line 931)
RejectionKeyPressUnguarded(s) ==
    LET s1 == [s EXCEPT !.rejected_trial = TRUE]
        s2 == CreateItem(CreateItem(s1, "bkgrd", CoverRegions[1]),
                         "bkgrd", CoverRegions[2])
    IN  After(TagBindBkgrd(s2, "background_peck"), "initial_links_stage")

\* A peck on the rejection key in the choice stage, lines 931-951.
\* (one cover only: the key on the right stays in reach during the wait)
RejectionKeyPressOneCover(s) ==
    IF ~s.rejected_trial
    THEN LET s1 == [s EXCEPT !.rejected_trial = TRUE]
             s2 == CreateItem(s1, "bkgrd", CoverRegions[1])
         IN  After(TagBindBkgrd(s2, "background_peck"), "initial_links_stage")
    ELSE s

RejectionKeyPress(s) ==
    IF ~s.rejected_trial
    THEN LET s1 == [s EXCEPT !.rejected_trial = TRUE]
             s2 == CreateItem(CreateItem(s1, "bkgrd", CoverRegions[1]),
                              "bkgrd", CoverRegions[2])
         IN  After(TagBindBkgrd(s2, "background_peck"), "initial_links_stage")
    ELSE s

\* (food after every peck of pre-training, the FR not consulted)
key_pressFedEveryPeck(s, where, keytag, rnd) ==
    LET s1 == IF ~HasRejection(keytag) THEN write_data(s, where, PeckTag(keytag))
              ELSE IF s.trial_type = "rejection-informative"
                   THEN write_data(s, where, "rejection-informative_peck")
                   ELSE IF s.trial_type = "rejection-noninformative"
                        THEN write_data(s, where, "rejection-noninformative_peck")
                        ELSE s
    IN
    IF s1.exc THEN s1
    ELSE IF s1.training_phase = 0
    THEN provide_food([s1 EXCEPT !.choice_key_FR = @ - 1])
    ELSE IF s1.training_phase = 1 /\ s1.trial_stage = 0
    THEN IF HasRejection(keytag)
         THEN RejectionKeyPress(s1)
         ELSE feedback_stage([s1 EXCEPT !.choice = keytag], rnd)
    ELSE s1

\* (the stage not tested: a peck in the feedback stage resolves the trial again)
key_pressAnyStage(s, where, keytag, rnd) ==
    LET s1 == IF ~HasRejection(keytag) THEN write_data(s, where, PeckTag(keytag))
              ELSE IF s.trial_type = "rejection-informative"
                   THEN write_data(s, where, "rejection-informative_peck")
                   ELSE IF s.trial_type = "rejection-noninformative"
                        THEN write_data(s, where, "rejection-noninformative_peck")
                        ELSE s
    IN
    IF s1.exc THEN s1
    ELSE IF s1.training_phase = 0
    THEN LET s2 == [s1 EXCEPT !.choice_key_FR = @ - 1] IN
         IF s2.choice_key_FR = 0 THEN provide_food(s2) ELSE initial_links_stage(s2)
    ELSE IF s1.training_phase = 1
    THEN IF HasRejection(keytag)
         THEN RejectionKeyPress(s1)
         ELSE feedback_stage([s1 EXCEPT !.choice = keytag], rnd)
    ELSE s1

key_press(s, where, keytag, rnd) ==
    LET s1 == IF ~HasRejection(keytag) THEN write_data(s, where, PeckTag(keytag))
              ELSE IF s.trial_type = "rejection-informative"
                   THEN write_data(s, where, "rejection-informative_peck")
                   ELSE IF s.trial_type = "rejection-noninformative"
                        THEN write_data(s, where, "rejection-noninformative_peck")
                        ELSE s
    IN
    IF s1.exc THEN s1
    ELSE IF s1.training_phase = 0
    THEN LET s2 == [s1 EXCEPT !.choice_key_FR = @ - 1] IN
         IF s2.choice_key_FR = 0 THEN provide_food(s2) ELSE initial_links_stage(s2)
    ELSE IF s1.training_phase = 1 /\ s1.trial_stage = 0
    THEN IF HasRejection(keytag)
         THEN RejectionKeyPress(s1)
         ELSE feedback_stage([s1 EXCEPT !.choice = keytag], rnd)
    ELSE s1

----------------------------------------------------------------------------
(* first_ITI, lines 400-550 *)

\* Lines 405-509 and 516: the space key unbound, the settings, the trial list
\* of the phase, the quota lists, the empty trial order.  With no row of the
\* subject line 451 raises, with a duration that is no number line 440 or 441.
FirstITISetup(s) ==
    LET s0 == [clear_canvas(s) EXCEPT !.pc = "running"]
        s1 == [s0 EXCEPT
                 !.informative_side = s.settings_dict.side,
                 !.noninformative_side = s.settings_dict.other]
        s2 == IF s1.training_phase = 0
              THEN [s1 EXCEPT !.trials_per_session = PreTrainingTrials,
                              !.trial_option_list = PreTrainingOptionList]
              ELSE [s1 EXCEPT
                      !.trials_per_session = ChoiceTrials,
                      !.trial_option_list = ChoiceOptionList,
                      !.forced_I_choice_outcome_list =
                          Rep("win", IntOfProduct(informative_prob, ForcedTrialsAssumed))
                          \o Rep("loss", IntOfProduct(100 - informative_prob, ForcedTrialsAssumed)),
                      !.forced_NI_choice_outcome_list =
                          Rep("win", IntOfProduct(noninformative_prob, ForcedTrialsAssumed))
                          \o Rep("loss", IntOfProduct(100 - noninformative_prob, ForcedTrialsAssumed)),
                      !.forced_NI_choice_feedback_list =
                          Rep(noninformative_Splus_color(s1),
                              IntOfProduct(informative_prob, ForcedTrialsAssumed))
                          \o Rep(noninformative_Sminus_color(s1),
                                 IntOfProduct(100 - informative_prob, ForcedTrialsAssumed))]
    IN  IF s.settings_dict = NoRow THEN Raise(s0, "AttributeError")
        ELSE IF s.settings_dict.hopper_ms \notin NumericText
                 \/ s.settings_dict.fi_ms \notin NumericText
        THEN Raise(s0, "ValueError")
        ELSE [s2 EXCEPT !.trial_order_list = << >>]

\* (the shuffle appended whether approved or not)
OrderIterationUnchecked(s, p) ==
    LET s1 == [s EXCEPT !.trial_option_list = p] IN
    [s1 EXCEPT !.trial_order_list = @ \o s1.trial_option_list]

\* One pass of the while loop of lines 518-530, the shuffle giving p.
OrderIteration(s, p) ==
    LET s1 == [s EXCEPT !.trial_option_list = p] IN
    IF Approved(s1.trial_option_list)
    THEN [s1 EXCEPT !.trial_order_list = @ \o s1.trial_option_list]
    ELSE s1

\* Lines 546-550: the timer of the first ITI.
FirstITIFinish(s) == After([s EXCEPT !.pc = "running"], "ITI")

\* The states in which the while loop can exit.
RECURSIVE OrderLoop(_, _)
OrderLoop(s, fam) ==
    IF Len(s.trial_order_list) = s.trials_per_session THEN {s}
    ELSE IF Len(s.trial_order_list) > s.trials_per_session THEN {}
    ELSE UNION { OrderLoop(OrderIteration(s, p), fam) :
                   p \in {q \in ShuffleOutcomes(s.trial_option_list, fam) : Approved(q)} }

first_ITI(s, fam) ==
    IF FirstITISetup(s).exc THEN {FirstITISetup(s)}
    ELSE {FirstITIFinish(x) : x \in OrderLoop(FirstITISetup(s), fam)}

----------------------------------------------------------------------------
(* The state after MainScreen.__init__ and place_birds_in_box, lines 291-392
   and 552-556: the start screen, waiting for the space key. *)

MaxFR == 2

\* The start screen of a session given an FR from frs (UnsetInt where int()
\* of the FR field raised, lines 310-314) and a settings row from rows.
StartScreen(frs, rows) ==
    /\ pc = "start_screen"
    /\ training_phase \in {0, 1}
    /\ preTraining_FR \in (IF training_phase = 0 THEN frs ELSE {1})
    /\ record_data \in BOOLEAN
    /\ settings_dict \in rows
    /\ informative_side = Unset
    /\ noninformative_side = Unset
    /\ trials_per_session = UnsetInt
    /\ trial_option_list = Unset
    /\ trial_order_list = Unset
    /\ forced_I_choice_outcome_list = Unset
    /\ forced_NI_choice_outcome_list = Unset
    /\ forced_NI_choice_feedback_list = Unset
    /\ current_trial_counter = 0
    /\ reinforcers_provided = 0
    /\ rejected_trial = FALSE
    /\ choice = Unset
    /\ choice_key_FR = UnsetInt
    /\ trial_type = Unset
    /\ trial_stage = UnsetInt
    /\ feedback_stimulus = Unset
    /\ canvas = [items |-> << >>, bkgrd |-> Unset]
    /\ timers = << >>
    /\ hopper = "Off"
    /\ session_data_frame = << "header_list" >>
    /\ csv_file = NoFile
    /\ tracebacks = {}
    /\ other_sessions = 0
    /\ session_duration = "ahead"

\* A session with an FR that is a number and a well-formed settings row.
Init == StartScreen(1..MaxFR, SettingsRows)

----------------------------------------------------------------------------
(* The events.  Each takes the scope m of a specification: the arrangements
   its shuffles are drawn from, the values its uniform draws take, whether only the sessions whose accepted
   shuffles all give the same arrangement are followed, and whether the data
   frame is followed (a run of a whole session is followed without it). *)

MaxLog == 3

\* Every accepted shuffle of the order gave the arrangement of the first.
Twin(n) ==
    \A i \in 1..Len(n.trial_order_list) :
        n.trial_order_list[i]
            = n.trial_order_list[((i - 1) % Len(n.trial_option_list)) + 1]

Scoped(n, m) ==
    IF m.log THEN n
    ELSE [n EXCEPT !.session_data_frame = session_data_frame, !.csv_file = csv_file]

\* The rows followed: m.rows in all or, where whole sessions are followed,
\* m.rows beyond the rows the trials so far need (the pecks of the FR and the
\* reinforcer row of each trial, the row of the session's end).
RowsFollowed(n, m) ==
    IF m.whole
    THEN m.rows + n.preTraining_FR * n.current_trial_counter + n.reinforcers_provided
           + (IF n.pc = "exited" THEN 1 ELSE 0)
    ELSE m.rows

Do(n, m) ==
    /\ m.log => Len(n.session_data_frame) <= RowsFollowed(n, m) + 1
    /\ Commit(Scoped(n, m))

\* The space key on the start screen (line 552).
Space(m) ==
    /\ pc = "start_screen"
    /\ \E n \in first_ITI(S, m.fam) :
         (IF m.twin /\ ~n.exc THEN Twin(n) ELSE TRUE) /\ Do(n, m)

\* choice() returned the first element of each quota list it drew from.
FirstPicked(s, rnd) ==
    /\ IF rnd.outcome = "none" THEN TRUE
       ELSE rnd.outcome = (IF SplitHead(s.choice) = Lower(s.informative_side)
                           THEN Head(s.forced_I_choice_outcome_list)
                           ELSE Head(s.forced_NI_choice_outcome_list))
    /\ IF rnd.colour = "none" THEN TRUE
       ELSE rnd.colour = Head(s.forced_NI_choice_feedback_list)

\* The first key build_keys drew (above the background).
FirstKey(cv) == IF Len(cv.items) >= 2 THEN cv.items[2].tag ELSE "none"

\* A peck on a key (the binding of lines 861-865).
KeyPeck(m) ==
    /\ pc = "running"
    /\ \E r \in Regions :
         LET tag == ItemAt(canvas, r) IN
         /\ tag \notin {"none", "bkgrd"}
         /\ m.first => tag = FirstKey(canvas)
         /\ \E rnd \in RandomResults([S EXCEPT !.choice = tag], m.draws) :
                /\ m.first => FirstPicked([S EXCEPT !.choice = tag], rnd)
                /\ Do(key_press(S, r, tag, rnd), m)

\* A peck that reaches an item tagged "bkgrd" (lines 579-583, 757-761, 944-948).
BackgroundPeck(m) ==
    /\ pc = "running"
    /\ \E r \in Regions :
         /\ ItemAt(canvas, r) = "bkgrd"
         /\ Do(write_data(S, r, canvas.bkgrd), m)

\* A timer set with root.after comes due and its callback runs.
Pending(i) == [S EXCEPT !.timers = SubSeq(@, 1, i - 1) \o SubSeq(@, i + 1, Len(@))]

TimerITI(m) ==
    /\ pc = "running"
    /\ \E i \in 1..Len(timers) : timers[i] = "ITI" /\ Do(ITI(Pending(i)), m)

TimerInitialLinks(m) ==
    /\ pc = "running"
    /\ \E i \in 1..Len(timers) :
         timers[i] = "initial_links_stage" /\ Do(initial_links_stage(Pending(i)), m)

TimerProvideFood(m) ==
    /\ pc = "running"
    /\ \E i \in 1..Len(timers) :
         timers[i] = "provide_food" /\ Do(provide_food(Pending(i)), m)

\* The escape key (line 328).
Escape(m) ==
    /\ pc \in {"start_screen", "running"}
    /\ Do(exit_program(S), m)

----------------------------------------------------------------------------
(* Spec: sessions of either phase, the data frame followed, up to MaxLog rows. *)

Open ==
    [ log |-> TRUE, rows |-> MaxLog, whole |-> FALSE, twin |-> TRUE, first |-> FALSE,
      draws |-> Draws, fam |-> OpenShuffles ]

Next ==
    \/ Space(Open)
    \/ KeyPeck(Open)
    \/ BackgroundPeck(Open)
    \/ TimerITI(Open)
    \/ TimerInitialLinks(Open)
    \/ TimerProvideFood(Open)
    \/ Escape(Open)

Spec == Init /\ [][Next]_vars

----------------------------------------------------------------------------
(* SpecSession: whole sessions, from the start screen to the exit after the
   last trial, with the rows of the data frame left out. *)

Whole ==
    [ log |-> FALSE, rows |-> 0, whole |-> TRUE, twin |-> FALSE, first |-> FALSE,
      draws |-> {51}, fam |-> WholeShuffles ]

NextSession ==
    \/ Space(Whole)
    \/ KeyPeck(Whole)
    \/ TimerITI(Whole)
    \/ TimerInitialLinks(Whole)
    \/ TimerProvideFood(Whole)

SpecSession == Init /\ [][NextSession]_vars

----------------------------------------------------------------------------
(* SpecLog: whole sessions with the data frame followed, with up to
   MaxExtraRows rows beyond those the trials need; each peck goes to the first
   key drawn and choice() returns the first element of the list it is given. *)

MaxExtraRows == 0

Logged ==
    [ log |-> TRUE, rows |-> MaxExtraRows, whole |-> TRUE, twin |-> FALSE, first |-> TRUE,
      draws |-> {51}, fam |-> WholeShuffles ]

NextLog ==
    \/ Space(Logged)
    \/ KeyPeck(Logged)
    \/ TimerITI(Logged)
    \/ TimerInitialLinks(Logged)
    \/ TimerProvideFood(Logged)

SpecLog == Init /\ [][NextLog]_vars

----------------------------------------------------------------------------
(* SpecPanel: the session together with the control panel behind it, whose
   Start button stays active (build_chamber_screen, lines 261-282); up to
   MaxOtherSessions further MainScreen objects are followed, as a count. *)

MaxOtherSessions == 1

\* The Start button: the fields are filled in, and a MainScreen is made.
StartProgram ==
    /\ other_sessions < MaxOtherSessions
    /\ Commit([S EXCEPT !.other_sessions = @ + 1])

\* A further session reaches its exit_program and its window is destroyed.
OtherSessionEnds ==
    /\ other_sessions > 0
    /\ Commit([S EXCEPT !.other_sessions = @ - 1])

NextPanel ==
    \/ StartProgram
    \/ OtherSessionEnds
    \/ Space(Open)
    \/ KeyPeck(Open)
    \/ BackgroundPeck(Open)
    \/ TimerITI(Open)
    \/ TimerInitialLinks(Open)
    \/ TimerProvideFood(Open)
    \/ Escape(Open)

SpecPanel == Init /\ [][NextPanel]_vars

----------------------------------------------------------------------------
(* SpecConfig: as Spec, the sessions included whose FR field holds no integer
   or whose settings row is missing or malformed. *)

InitConfig == StartScreen((1..MaxFR) \cup {UnsetInt}, SettingsRows \cup MalformedRows \cup {NoRow})

NextConfig ==
    \/ Space(Open)
    \/ KeyPeck(Open)
    \/ BackgroundPeck(Open)
    \/ TimerITI(Open)
    \/ TimerInitialLinks(Open)
    \/ TimerProvideFood(Open)
    \/ Escape(Open)

SpecConfig == InitConfig /\ [][NextConfig]_vars

----------------------------------------------------------------------------
(* SpecQuota: feedback_stage as a function of the quota lists.  A main-phase
   session stands in the initial links of its first trial, a forced-choice
   one, and the three quota lists hold any tokens up to MaxQuota each, none
   included; the session runs on from there. *)

MaxQuota == 1

\* The lists of at most k entries drawn from the set of tokens.
RECURSIVE ListsUpTo(_, _)
ListsUpTo(tokens, k) ==
    IF k = 0 THEN {<< >>}
    ELSE ListsUpTo(tokens, k - 1)
            \cup {Append(l, x) : l \in {y \in ListsUpTo(tokens, k - 1) : Len(y) = k - 1},
                                  x \in tokens}

\* The start screen of a main-phase session (lines 291-392), as a record.
QuotaStart(row, rec) ==
    [ pc |-> "start_screen", training_phase |-> 1, preTraining_FR |-> 1,
      record_data |-> rec, settings_dict |-> row,
      informative_side |-> Unset, noninformative_side |-> Unset,
      trials_per_session |-> UnsetInt, trial_option_list |-> Unset,
      trial_order_list |-> Unset,
      forced_I_choice_outcome_list |-> Unset,
      forced_NI_choice_outcome_list |-> Unset,
      forced_NI_choice_feedback_list |-> Unset,
      current_trial_counter |-> 0, reinforcers_provided |-> 0, rejected_trial |-> FALSE,
      choice |-> Unset, choice_key_FR |-> UnsetInt, trial_type |-> Unset,
      trial_stage |-> UnsetInt, feedback_stimulus |-> Unset,
      canvas |-> [items |-> << >>, bkgrd |-> Unset], timers |-> << >>, hopper |-> "Off",
      session_data_frame |-> << "header_list" >>, csv_file |-> NoFile,
      tracebacks |-> {}, other_sessions |-> 0, session_duration |-> "ahead",
      exc |-> FALSE ]

\* The first trial's initial links: first_ITI, the first ITI and
\* initial_links_stage have run.
FirstInitialLinks(row, rec) ==
    { initial_links_stage([ITI([n EXCEPT !.timers = << >>]) EXCEPT !.timers = << >>])
        : n \in {x \in first_ITI(QuotaStart(row, rec), OpenShuffles) : Twin(x)} }

QuotaInputs ==
    { [n EXCEPT !.forced_I_choice_outcome_list = i,
                !.forced_NI_choice_outcome_list = o,
                !.forced_NI_choice_feedback_list = f]
        : n \in { x \in UNION {FirstInitialLinks(row, rec) : row \in SettingsRows, rec \in BOOLEAN}
                     : HasForced(x.trial_type) },
          i \in ListsUpTo({"win", "loss"}, MaxQuota),
          o \in ListsUpTo({"win", "loss"}, MaxQuota),
          f \in ListsUpTo({r.NIplus : r \in SettingsRows} \cup {r.NIminus : r \in SettingsRows},
                          MaxQuota) }

Load(n) ==
    /\ pc = n.pc
    /\ training_phase = n.training_phase
    /\ preTraining_FR = n.preTraining_FR
    /\ record_data = n.record_data
    /\ settings_dict = n.settings_dict
    /\ informative_side = n.informative_side
    /\ noninformative_side = n.noninformative_side
    /\ trials_per_session = n.trials_per_session
    /\ trial_option_list = n.trial_option_list
    /\ trial_order_list = n.trial_order_list
    /\ forced_I_choice_outcome_list = n.forced_I_choice_outcome_list
    /\ forced_NI_choice_outcome_list = n.forced_NI_choice_outcome_list
    /\ forced_NI_choice_feedback_list = n.forced_NI_choice_feedback_list
    /\ current_trial_counter = n.current_trial_counter
    /\ reinforcers_provided = n.reinforcers_provided
    /\ rejected_trial = n.rejected_trial
    /\ choice = n.choice
    /\ choice_key_FR = n.choice_key_FR
    /\ trial_type = n.trial_type
    /\ trial_stage = n.trial_stage
    /\ feedback_stimulus = n.feedback_stimulus
    /\ canvas = n.canvas
    /\ timers = n.timers
    /\ hopper = n.hopper
    /\ session_data_frame = n.session_data_frame
    /\ csv_file = n.csv_file
    /\ tracebacks = n.tracebacks
    /\ other_sessions = n.other_sessions
    /\ session_duration = n.session_duration

InitQuota == \E n \in QuotaInputs : Load(n)

NextQuota ==
    \/ KeyPeck(Open)
    \/ BackgroundPeck(Open)
    \/ TimerITI(Open)
    \/ TimerInitialLinks(Open)
    \/ TimerProvideFood(Open)
    \/ Escape(Open)

SpecQuota == InitQuota /\ [][NextQuota]_vars

----------------------------------------------------------------------------
(* SpecOrder: first_ITI taken one pass of its while loop at a time, the
   shuffles drawn from OrderShuffles. *)

MaxOrderLen == 150

OrderStart ==
    /\ pc = "start_screen"
    /\ Commit([FirstITISetup(S) EXCEPT !.pc = "ordering"])

OrderPass ==
    /\ pc = "ordering"
    /\ Len(trial_order_list) # trials_per_session
    /\ Len(trial_order_list) <= MaxOrderLen
    /\ \E p \in ShuffleOutcomes(trial_option_list, OrderShuffles) :
           Commit(OrderIteration(S, p))

OrderExit ==
    /\ pc = "ordering"
    /\ Len(trial_order_list) = trials_per_session
    /\ Commit(FirstITIFinish(S))

NextOrder == OrderStart \/ OrderPass \/ OrderExit

SpecOrder == Init /\ [][NextOrder]_vars

----------------------------------------------------------------------------
(* Trial order: C1, C2 *)

OrderReady == pc = "running" /\ current_trial_counter = 0

FourAlike(l, i) == l[i] = l[i + 1] /\ l[i] = l[i + 2] /\ l[i] = l[i + 3]

\* C1: in every trial order produced at session start no four consecutive
\* entries carry the same trial-type tag, in any window of the final list.
C1_NoFourConsecutive ==
    OrderReady =>
        \A i \in 1..(Len(trial_order_list) - 3) : ~FourAlike(trial_order_list, i)

Block(l, b) == SubSeq(l, 50 * (b - 1) + 1, 50 * b)

\* C2: the trial order has trials_per_session entries and the exact counts:
\* 56 entries with each of the 7 keys 8 times in pre-training; 100 entries in
\* two blocks of 50, each with 10 trials of each of the 5 types, in the main
\* phase.
C2_OrderCounts ==
    OrderReady =>
        /\ Len(trial_order_list) = trials_per_session
        /\ training_phase = 0 =>
              /\ Len(trial_order_list) = 56
              /\ \A k \in Elements(PreTrainingKeys) : Count(trial_order_list, k) = 8
        /\ training_phase = 1 =>
              /\ Len(trial_order_list) = 100
              /\ \A b \in {1, 2} : \A ty \in Elements(ChoiceTrialTypes) :
                     Count(Block(trial_order_list, b), ty) = 10

\* An order of the main phase whose first accepted shuffle differs from the second.
C2_Witness ==
    /\ OrderReady
    /\ training_phase = 1
    /\ Block(trial_order_list, 1) # Block(trial_order_list, 2)

----------------------------------------------------------------------------
(* The forced-choice quotas: C3 to C7 *)

ChoiceSession == training_phase = 1 /\ pc = "running"

\* The session ended in the ITI that found the trial counter at its maximum.
SessionComplete == pc = "exited" /\ current_trial_counter = trials_per_session

\* The step takes a token x from the quota list l.
Takes(l, x) == Len(l') = Len(l) - 1 /\ Count(l', x) = Count(l, x) - 1

Scheduled(t, callback) == Count(t, callback) > 0

\* At the first trial the quotas hold 4 wins and 16 losses, 10 wins and 10
\* losses, 4 S+ colours and 16 S- colours.
C3_Seeded ==
    /\ Count(forced_I_choice_outcome_list, "win") = 4
    /\ Count(forced_I_choice_outcome_list, "loss") = 16
    /\ Count(forced_NI_choice_outcome_list, "win") = 10
    /\ Count(forced_NI_choice_outcome_list, "loss") = 10
    /\ Count(forced_NI_choice_feedback_list, settings_dict.NIplus) = 4
    /\ Count(forced_NI_choice_feedback_list, settings_dict.NIminus) = 16
    /\ Len(forced_I_choice_outcome_list) = 20
    /\ Len(forced_NI_choice_outcome_list) = 20
    /\ Len(forced_NI_choice_feedback_list) = 20

C3_UsedUp ==
    /\ forced_I_choice_outcome_list = << >>
    /\ forced_NI_choice_outcome_list = << >>
    /\ forced_NI_choice_feedback_list = << >>

\* A step that changes a quota is the Feedback entry of a forced-choice trial
\* of the list's type; it takes one token, and the trial is reinforced (the
\* feedback timer leads to provide_food) exactly if the token is a win, and
\* shows the S+ colour exactly if the colour token is the S+ colour.
C3_TokenDecides ==
    /\ forced_I_choice_outcome_list' # forced_I_choice_outcome_list =>
          /\ trial_type = "forced_choice-informative"
          /\ trial_stage' = 1
          /\ \/ Takes(forced_I_choice_outcome_list, "win") /\ timers' = << "provide_food" >>
             \/ Takes(forced_I_choice_outcome_list, "loss") /\ timers' = << "ITI" >>
    /\ forced_NI_choice_outcome_list' # forced_NI_choice_outcome_list =>
          /\ trial_type = "forced_choice-noninformative"
          /\ trial_stage' = 1
          /\ \/ Takes(forced_NI_choice_outcome_list, "win") /\ timers' = << "provide_food" >>
             \/ Takes(forced_NI_choice_outcome_list, "loss") /\ timers' = << "ITI" >>
    /\ forced_NI_choice_feedback_list' # forced_NI_choice_feedback_list =>
          /\ trial_type = "forced_choice-noninformative"
          /\ trial_stage' = 1
          /\ \/ /\ Takes(forced_NI_choice_feedback_list, settings_dict.NIplus)
                /\ ColorOfKey(S, feedback_stimulus') = settings_dict.NIplus
             \/ /\ Takes(forced_NI_choice_feedback_list, settings_dict.NIminus)
                /\ ColorOfKey(S, feedback_stimulus') = settings_dict.NIminus

\* C3: over a completed main-phase session exactly 4 of the 20
\* forced_choice-informative trials are reinforced and 16 are not, exactly 10
\* of the 20 forced_choice-noninformative trials are reinforced, and exactly
\* 4 of them show the non-informative S+ colour: the quotas start with these
\* counts, each forced trial's outcome is the token it takes, and the quotas
\* are used up when the session is complete.
C3_ExactQuota ==
    /\ [](training_phase = 1 /\ OrderReady => C3_Seeded)
    /\ [](training_phase = 1 /\ SessionComplete => C3_UsedUp)
    /\ [][ChoiceSession /\ pc' = "running" => C3_TokenDecides]_vars

\* A main-phase session run to its end.
C3_Witness ==
    /\ training_phase = 1
    /\ SessionComplete
    /\ current_trial_counter = 100
    /\ reinforcers_provided = 14

ForcedI == "forced_choice-informative"

ForcedNI == "forced_choice-noninformative"

\* The trial of the counter is over: its ITI is due, or the session has ended.
TrialOver == (pc = "running" /\ timers = << "ITI" >>) \/ SessionComplete

\* The ITI has set up the trial of the counter and its keys are not yet shown.
TrialDue == pc = "running" /\ timers = << "initial_links_stage" >> /\ ~rejected_trial

\* The trials of type t of the order that have not run yet.
StillToRun(t) ==
    LET from == IF TrialDue THEN current_trial_counter ELSE current_trial_counter + 1
    IN  Count(SubSeq(trial_order_list, from, Len(trial_order_list)), t)

C4_Boundary ==
    /\ Len(forced_I_choice_outcome_list) = StillToRun(ForcedI)
    /\ Len(forced_NI_choice_outcome_list) = StillToRun(ForcedNI)
    /\ Len(forced_NI_choice_feedback_list) = StillToRun(ForcedNI)
    /\ forced_I_choice_outcome_list = << >> <=> StillToRun(ForcedI) = 0
    /\ forced_NI_choice_outcome_list = << >> <=> StillToRun(ForcedNI) = 0
    /\ forced_NI_choice_feedback_list = << >> <=> StillToRun(ForcedNI) = 0

C4_Shrinks ==
    /\ Len(forced_I_choice_outcome_list') <= Len(forced_I_choice_outcome_list)
    /\ Len(forced_NI_choice_outcome_list') <= Len(forced_NI_choice_outcome_list)
    /\ Len(forced_NI_choice_feedback_list') <= Len(forced_NI_choice_feedback_list)

\* C4: at every trial boundary of a main-phase session (the ITI of a trial due
\* or just run, or the session ended) the length of each quota list is the
\* number of forced-choice trials of its type still to be run in the trial
\* order, so the list is non-empty before the last forced trial of its type
\* and empty after it; and no step makes a quota list longer.
C4_QuotaMatchesRemaining ==
    /\ [](training_phase = 1 /\ (TrialOver \/ TrialDue) => C4_Boundary)
    /\ [][ChoiceSession => C4_Shrinks]_vars

\* A boundary in mid-session: some forced trials of each type run, some to come.
C4_Witness ==
    /\ training_phase = 1
    /\ TrialOver
    /\ pc = "running"
    /\ Len(forced_I_choice_outcome_list) \in 1..19
    /\ Len(forced_NI_choice_feedback_list) \in 1..19
    /\ StillToRun(ForcedNI) \in 1..19

\* The step in which feedback_stage runs.
FeedbackEntry == ChoiceSession /\ trial_stage = 0 /\ trial_stage' = 1

\* C5: entering the Feedback stage of a forced_choice-informative trial
\* removes exactly one token from the informative outcome quota, leaves both
\* non-informative quotas unchanged, and the trial is reinforced exactly if
\* the token removed is a win; entering it on a forced_choice-noninformative
\* trial removes exactly one token from the non-informative outcome quota and
\* one from the non-informative colour quota, leaves the informative quota
\* unchanged, reinforces exactly if the outcome token is a win and shows the
\* colour of the colour token.
C5_ForcedFeedbackTakesToken ==
    [][ /\ FeedbackEntry /\ trial_type = ForcedI =>
              /\ Len(forced_I_choice_outcome_list') = Len(forced_I_choice_outcome_list) - 1
              /\ UNCHANGED << forced_NI_choice_outcome_list, forced_NI_choice_feedback_list >>
              /\ Scheduled(timers', "provide_food")
                   <=> Takes(forced_I_choice_outcome_list, "win")
        /\ FeedbackEntry /\ trial_type = ForcedNI =>
              /\ Len(forced_NI_choice_outcome_list') = Len(forced_NI_choice_outcome_list) - 1
              /\ Len(forced_NI_choice_feedback_list') = Len(forced_NI_choice_feedback_list) - 1
              /\ UNCHANGED forced_I_choice_outcome_list
              /\ Scheduled(timers', "provide_food")
                   <=> Takes(forced_NI_choice_outcome_list, "win")
              /\ Takes(forced_NI_choice_feedback_list, ColorOfKey(S, feedback_stimulus'))
      ]_vars

\* Both kinds of forced trial have entered Feedback; the shown one is a
\* non-informative forced trial with its S+ colour and no food to come.
C5_Witness ==
    /\ ChoiceSession
    /\ trial_type = ForcedNI
    /\ trial_stage = 1
    /\ timers = << "ITI" >>
    /\ hopper = "Off"
    /\ feedback_stimulus = KeyOfColor(S, settings_dict.NIplus)
    /\ Len(forced_I_choice_outcome_list) < 20
    /\ Len(forced_NI_choice_outcome_list) < 20

ChoiceKeys == {"left_choice_key", "right_choice_key"}

\* The choice keys a peck can reach.
KeysInReach == {ItemAt(canvas, r) : r \in Regions} \cap ChoiceKeys

\* How feedback_stage can schedule the end of the trial after a peck on key k.
OutcomesOf(k) ==
    { key_press(S, KeyRegion(k), k, rnd).timers :
        rnd \in RandomResults([S EXCEPT !.choice = k], Draws) }

\* The free-choice and rejection trial types.
Unforced == {"free_choice", "rejection-informative", "rejection-noninformative"}

\* C6: on a free-choice or rejection trial of the main phase, from the ITI
\* that sets the trial up to the ITI that ends it, no step changes any of the
\* three quota lists; and whatever happened in earlier trials, a peck on a
\* choice key shown in the choice stage of such a trial can be followed by
\* food and can be followed by none (the outcome comes from the draw alone).
C6_NoQuotaOnFreeOrRejection ==
    /\ [][ ChoiceSession /\ (trial_type \in Unforced \/ trial_type' \in Unforced) =>
             UNCHANGED << forced_I_choice_outcome_list, forced_NI_choice_outcome_list,
                          forced_NI_choice_feedback_list >> ]_vars
    /\ [](ChoiceSession /\ trial_type \in Unforced /\ trial_stage = 0 =>
            \A k \in KeysInReach :
                OutcomesOf(k) = { << "provide_food" >>, << "ITI" >> })

\* A rejection trial in which the reject key was used is to be reinforced
\* after a forced trial took a token: the quotas are as that trial left them.
C6_Witness ==
    /\ ChoiceSession
    /\ trial_type \in Unforced
    /\ rejected_trial
    /\ trial_stage = 1
    /\ timers = << "provide_food" >>
    /\ Len(forced_I_choice_outcome_list) + Len(forced_NI_choice_outcome_list) = 39

\* C7: in a main-phase session feedback_stage never samples from an empty
\* quota list (no IndexError is raised), and whenever the choice key of a
\* forced-choice trial is shown each quota the trial draws from holds a token.
C7_QuotaNeverEmptyWhenSampled ==
    /\ "IndexError" \notin tracebacks
    /\ ChoiceSession /\ trial_stage = 0 /\ KeysInReach # {} =>
          /\ trial_type = ForcedI => forced_I_choice_outcome_list # << >>
          /\ trial_type = ForcedNI =>
                /\ forced_NI_choice_outcome_list # << >>
                /\ forced_NI_choice_feedback_list # << >>

\* The last forced trial of the non-informative type has taken the last tokens.
C7_Witness ==
    /\ ChoiceSession
    /\ trial_type = ForcedNI
    /\ trial_stage = 1
    /\ forced_NI_choice_outcome_list = << >>
    /\ forced_NI_choice_feedback_list = << >>
    /\ current_trial_counter > 20

----------------------------------------------------------------------------
(* The rejection key: C8 to C10 *)

\* The keys a peck can reach.
ActiveKeys == {ItemAt(canvas, r) : r \in Regions} \ {"none", "bkgrd"}

\* The choice key of the option the rejection trial did not begin with.
AlternativeKey ==
    IF trial_type = "rejection-noninformative"
    THEN (IF informative_side = "Left" THEN "left_choice_key" ELSE "right_choice_key")
    ELSE (IF noninformative_side = "Left" THEN "left_choice_key" ELSE "right_choice_key")

\* The timer of the rejection fixed interval comes due.
RejectionIntervalElapses ==
    /\ ChoiceSession
    /\ rejected_trial
    /\ Scheduled(timers, "initial_links_stage")
    /\ pc' = "running"
    /\ ~Scheduled(timers', "initial_links_stage")

\* C8: on a rejection trial, when the fixed interval that follows the press of
\* the reject key has elapsed, the trial is in the choice stage again (same
\* trial index and type, stage 0, still rejected) and the only key a peck can
\* reach is the choice key of the alternative option: the informative-side key
\* on a rejection-noninformative trial, the non-informative-side key on a
\* rejection-informative trial.
C8_RejectedTrialShowsAlternative ==
    /\ [][ RejectionIntervalElapses =>
             /\ current_trial_counter' = current_trial_counter
             /\ trial_type' = trial_type
             /\ trial_stage' = 0
             /\ rejected_trial'
             /\ ActiveKeys' = {AlternativeKey} ]_vars
    /\ [](ChoiceSession /\ rejected_trial /\ trial_stage = 0 /\ timers = << >> =>
            ActiveKeys = {AlternativeKey})

\* A rejection-informative trial, rejected, now shows the non-informative key.
C8_Witness ==
    /\ ChoiceSession
    /\ rejected_trial
    /\ trial_type = "rejection-informative"
    /\ trial_stage = 0
    /\ timers = << >>
    /\ ActiveKeys = {ChoiceKeyOf(noninformative_side)}

\* The rows of the data frame that record a peck on the reject key in trial n.
RejectionPecks(n) ==
    { i \in 2..Len(session_data_frame) :
        /\ session_data_frame[i].ExperimentalEvent = "rejection_key_peck"
        /\ session_data_frame[i].TrialNum = n }

\* C9: once the reject key has been pressed in a trial of the main phase no
\* peck can reach the reject key for the rest of the trial, the fixed-interval
\* wait included, and the data frame holds at most one rejection peck for
\* each trial.
C9_RejectKeyOffAfterPress ==
    /\ ChoiceSession /\ rejected_trial => "rejection_key" \notin ActiveKeys
    /\ training_phase = 1 /\ pc # "start_screen" =>
          \A n \in 1..current_trial_counter : Cardinality(RejectionPecks(n)) <= 1

\* The step records a peck on the reject key.
RejectionPeckLogged ==
    /\ Len(session_data_frame') = Len(session_data_frame) + 1
    /\ session_data_frame'[Len(session_data_frame')].ExperimentalEvent = "rejection_key_peck"

\* C10: within a trial the rejected flag, once True, stays True; a timer for
\* initial_links_stage is added within a trial only by the step that turns the
\* flag from False to True, so at most once; the flag is True only on a
\* rejection trial of the main phase; and a peck on the reject key while the
\* flag is True changes nothing but the data frame.
C10_OnlyFirstRejectionActs ==
    /\ [](rejected_trial =>
            /\ training_phase = 1
            /\ trial_type \in {"rejection-informative", "rejection-noninformative"})
    /\ [][ /\ rejected_trial /\ current_trial_counter' = current_trial_counter =>
                rejected_trial'
           /\ /\ pc = "running"
              /\ current_trial_counter' = current_trial_counter
              /\ Count(timers', "initial_links_stage") > Count(timers, "initial_links_stage")
              => /\ ~rejected_trial /\ rejected_trial'
                 /\ Count(timers', "initial_links_stage") = 1
           /\ rejected_trial /\ RejectionPeckLogged =>
                UNCHANGED << pc, training_phase, preTraining_FR, record_data, settings_dict,
                             informative_side, noninformative_side, trials_per_session,
                             trial_option_list, trial_order_list,
                             forced_I_choice_outcome_list, forced_NI_choice_outcome_list,
                             forced_NI_choice_feedback_list, current_trial_counter,
                             reinforcers_provided, rejected_trial, choice, choice_key_FR,
                             trial_type, trial_stage, feedback_stimulus, canvas, timers,
                             hopper, csv_file, tracebacks, other_sessions,
                             session_duration >> ]_vars

\* The reject key was pecked twice in the trial under way.
C10_Witness ==
    /\ ChoiceSession
    /\ rejected_trial
    /\ timers = << "initial_links_stage" >>
    /\ Cardinality(RejectionPecks(current_trial_counter)) = 2

----------------------------------------------------------------------------
(* Feedback and its end: C11, C12 *)

\* The rejected trial shows its alternative key again.
RejectedChoiceStage ==
    ChoiceSession /\ rejected_trial /\ trial_stage = 0 /\ timers = << >>

\* What a peck on key k gives when the random module returns rnd.
AfterPeck(k, rnd) == key_press(S, KeyRegion(k), k, rnd)

C11_InformativeRule(n, rnd) ==
    /\ Scheduled(n.timers, "provide_food") <=> rnd.u1 <= informative_prob
    /\ Scheduled(n.timers, "ITI") <=> ~(rnd.u1 <= informative_prob)
    /\ ColorOfKey(S, n.feedback_stimulus) =
          IF rnd.u1 <= informative_prob THEN settings_dict.Iplus ELSE settings_dict.Iminus

C11_NoninformativeRule(n, rnd) ==
    /\ Scheduled(n.timers, "provide_food") <=> rnd.u1 <= noninformative_prob
    /\ Scheduled(n.timers, "ITI") <=> ~(rnd.u1 <= noninformative_prob)
    /\ ColorOfKey(S, n.feedback_stimulus) =
          IF rnd.u2 <= informative_prob THEN settings_dict.NIplus ELSE settings_dict.NIminus

\* C11: on a rejected trial whose alternative key is shown, a peck on that key
\* records it as the choice and enters Feedback (stage 1) without touching the
\* quotas, and for every value the live draws can take the outcome follows the
\* non-forced rule of the alternative's side: on a rejection-noninformative
\* trial food follows exactly if the draw is at most the informative
\* probability and the informative S+ is shown exactly then (else the S-); on
\* a rejection-informative trial food follows exactly if the first draw is at
\* most the non-informative probability, and the non-informative S+ is shown
\* exactly if the second draw is at most the informative probability.
C11_AlternativeResolvedBySide ==
    RejectedChoiceStage =>
        \A k \in ActiveKeys :
            \A rnd \in RandomResults([S EXCEPT !.choice = k], Draws) :
                LET n == AfterPeck(k, rnd) IN
                /\ n.choice = k
                /\ n.trial_stage = 1
                /\ n.current_trial_counter = current_trial_counter
                /\ n.forced_I_choice_outcome_list = forced_I_choice_outcome_list
                /\ n.forced_NI_choice_outcome_list = forced_NI_choice_outcome_list
                /\ n.forced_NI_choice_feedback_list = forced_NI_choice_feedback_list
                /\ IF trial_type = "rejection-noninformative"
                   THEN C11_InformativeRule(n, rnd)
                   ELSE C11_NoninformativeRule(n, rnd)

\* The alternative key of a rejected rejection-noninformative trial has been
\* pecked and the informative S+ is shown, food to follow.
C11_Witness ==
    /\ ChoiceSession
    /\ rejected_trial
    /\ trial_type = "rejection-noninformative"
    /\ trial_stage = 1
    /\ choice = AlternativeKey
    /\ feedback_stimulus = KeyOfColor(S, settings_dict.Iplus)
    /\ ActiveKeys = {feedback_stimulus}
    /\ timers = << "provide_food" >>

\* The feedback key is shown and the feedback timer is running.
InFeedback == ChoiceSession /\ trial_stage = 1 /\ feedback_stimulus \in ActiveKeys

\* The colour shown is one of the informative pair.
InformativeFeedback ==
    ColorOfKey(S, feedback_stimulus) \in {settings_dict.Iplus, settings_dict.Iminus}

C12_OneTimer ==
    /\ timers \in { << "provide_food" >>, << "ITI" >> }
    /\ hopper = "Off"
    /\ InformativeFeedback =>
          (timers = << "provide_food" >>
              <=> ColorOfKey(S, feedback_stimulus) = settings_dict.Iplus)

C12_Expiry ==
    IF timers = << "provide_food" >>
    THEN /\ reinforcers_provided' = reinforcers_provided + 1
         /\ hopper' = "On"
         /\ timers' = << "ITI" >>
         /\ current_trial_counter' = current_trial_counter
         /\ pc' = "running"
    ELSE /\ reinforcers_provided' = reinforcers_provided
         /\ hopper' = "Off"
         /\ \/ /\ pc' = "running"
               /\ current_trial_counter' = current_trial_counter + 1
               /\ timers' = << "initial_links_stage" >>
            \/ /\ pc' = "exited"
               /\ current_trial_counter = trials_per_session

\* C12: in the main phase, while the feedback key is shown exactly one timer
\* is pending, for provide_food if the outcome resolved on entering Feedback
\* was reinforced (on the informative side: exactly if the S+ is shown) and
\* for ITI if not, and the hopper is off; when that timer comes due the trial
\* goes to Reinforce in the first case (the hopper goes on and the reinforcer
\* counter goes up by one, the ITI following) and directly to the ITI in the
\* second (hopper off, reinforcer counter unchanged).
C12_FeedbackTimerDecides ==
    /\ [](InFeedback => C12_OneTimer)
    /\ [][InFeedback /\ timers' # timers /\ (pc' = "running" \/ hopper' = "On"
                                             \/ reinforcers_provided' # reinforcers_provided)
             => C12_Expiry]_vars

\* A main-phase trial in Reinforce: the feedback timer led to provide_food.
C12_Witness ==
    /\ ChoiceSession
    /\ trial_stage = 1
    /\ hopper = "On"
    /\ reinforcers_provided = 1
    /\ timers = << "ITI" >>
    /\ ActiveKeys = {}

----------------------------------------------------------------------------
(* The length and the end of the session: C13 to C17 *)

\* The step in which the callback ITI runs.
ITIRuns == pc = "running" /\ Scheduled(timers, "ITI") /\ ~Scheduled(timers', "ITI")

C13_Counter ==
    /\ pc = "start_screen" => current_trial_counter = 0
    /\ pc # "start_screen" =>
          /\ current_trial_counter \in 0..trials_per_session
          /\ Len(trial_order_list) = trials_per_session
          /\ current_trial_counter >= 1 =>
                trial_type = trial_order_list[current_trial_counter]
    /\ pc = "exited" => current_trial_counter = trials_per_session

C13_Step ==
    /\ current_trial_counter' # current_trial_counter =>
          /\ ITIRuns
          /\ current_trial_counter' = current_trial_counter + 1
    /\ ITIRuns =>
          IF current_trial_counter = trials_per_session
          THEN /\ pc' = "exited"
               /\ current_trial_counter' = current_trial_counter
               /\ ~Scheduled(timers', "initial_links_stage")
          ELSE /\ pc' = "running"
               /\ current_trial_counter' = current_trial_counter + 1
               /\ trial_type' = trial_order_list[current_trial_counter']
               /\ timers' = << "initial_links_stage" >>

\* C13: in a session that is not aborted the trial counter is 0 on the start
\* screen, changes only when ITI runs and then by exactly one, never exceeds
\* trials_per_session, the trial of counter k has the type of the k-th entry
\* of the trial order, the ITI that finds the counter at trials_per_session
\* ends the session instead of scheduling initial_links_stage, and the session
\* ends only with the counter at trials_per_session.
C13_RunsExactlyAllTrials ==
    /\ []C13_Counter
    /\ [][C13_Step]_vars

\* A pre-training session run to its end.
C13_Witness ==
    /\ training_phase = 0
    /\ pc = "exited"
    /\ current_trial_counter = PreTrainingTrials
    /\ trial_type = trial_order_list[PreTrainingTrials]

\* The rows of the data frame that mark the end of the session.
Sentinels ==
    { i \in 2..Len(session_data_frame) :
        session_data_frame[i].LocationEvent = "SessionEnds" }

\* The hopper is off, the window is destroyed, and the data frame ends with
\* its only SessionEnds row.
EndedInOrder ==
    /\ pc = "exited"
    /\ hopper = "Off"
    /\ Sentinels = {Len(session_data_frame)}

\* The data frame only grows, and by appending.
AppendOnly ==
    /\ Len(session_data_frame') >= Len(session_data_frame)
    /\ SubSeq(session_data_frame', 1, Len(session_data_frame)) = session_data_frame

\* The ITI that finds the trial counter at its maximum runs.
TrialMaxReached == ITIRuns /\ current_trial_counter = trials_per_session

\* C14 as stated: when the session ends because the trial counter reached
\* trials_per_session the hopper is off, the window is destroyed, and the file
\* written holds every row of the data frame in order, the last of them the
\* only SessionEnds row.
C14_EndPersistsLog ==
    /\ [][TrialMaxReached => (EndedInOrder /\ csv_file = session_data_frame)']_vars
    /\ [][AppendOnly]_vars

\* C14 amended: the same, the file being written only when record_data is set;
\* when it is not, no file is written at any time.
C14_EndPersistsLogIfRecording ==
    /\ [][TrialMaxReached =>
            (/\ EndedInOrder
             /\ record_data => csv_file = session_data_frame
             /\ ~record_data => csv_file = NoFile)']_vars
    /\ [][AppendOnly]_vars

\* A main-phase session run to its end with its file written.
C14_Witness ==
    /\ SessionComplete
    /\ training_phase = 1
    /\ record_data
    /\ Len(session_data_frame) > ChoiceTrials
    /\ csv_file = session_data_frame
    /\ EndedInOrder

\* C15: the ITI that finds the trial counter at its maximum is the only timer
\* pending when it comes due; it ends the session, after which no timer is
\* pending and no step changes anything (no callback runs): the end of the
\* session is terminal.
C15_TrialMaxEndIsTerminal ==
    /\ [][TrialMaxReached =>
            /\ timers = << "ITI" >>
            /\ pc' = "exited"
            /\ timers' = << >>]_vars
    /\ [](pc = "exited" => timers = << >>)
    /\ [][pc = "exited" => UNCHANGED vars]_vars

\* The session has ended at the trial maximum and nothing is pending.
C15_Witness ==
    /\ SessionComplete
    /\ timers = << >>
    /\ canvas.items = << >>
    /\ hopper = "Off"

\* C16: from every state of a session (the start screen, the first ITI, the
\* choice stage, the rejection wait, Feedback, Reinforce, any later ITI) the
\* Escape key completes the end of the session: the hopper is off, the data
\* frame ends with its only SessionEnds row, the file (when record_data is
\* set) holds the data frame, and the window is destroyed.
C16_AbortCompletes ==
    [][Escape(Open) =>
         (EndedInOrder /\ (record_data => csv_file = session_data_frame))']_vars

\* C17: the Escape key leaves no timer pending, and once exit_program has
\* destroyed the window no step changes the trial counter, the reinforcer
\* counter, the data frame or the hopper.
C17_AbortCancelsTimers ==
    /\ [][Escape(Open) => timers' = << >>]_vars
    /\ [][pc = "exited" =>
            UNCHANGED << current_trial_counter, reinforcers_provided,
                         session_data_frame, hopper >>]_vars

----------------------------------------------------------------------------
(* The control panel: C18 *)

\* C18: while the session has not reached its end (its window is not
\* destroyed) the Start button makes no second session: no other MainScreen
\* exists beside it.
C18_OneSessionAtATime ==
    pc \in {"start_screen", "running"} => other_sessions = 0


----------------------------------------------------------------------------
(* C19 *)

\* The last row of the data frame (below its header) records the given event.
LastEvent(e) ==
    /\ Len(session_data_frame) > 1
    /\ session_data_frame[Len(session_data_frame)].LocationEvent = e

\* The trial is in Reinforce: provide_food has run and its ITI timer is pending.
ReinforceStage ==
    /\ pc = "running"
    /\ timers = << "ITI" >>
    /\ canvas.items = << >>
    /\ LastEvent("reinforcer_provided")

\* A stage in which keys are shown or the rejection interval runs.
KeyStage ==
    \/ ActiveKeys # {}
    \/ Scheduled(timers, "initial_links_stage")
    \/ Scheduled(timers, "provide_food")

C19_HopperState ==
    /\ hopper = "On" => ReinforceStage
    /\ KeyStage => hopper = "Off"
    /\ pc = "exited" => hopper = "Off"

----------------------------------------------------------------------------
(* C20 *)

\* The keys a peck can land on, with the region pecked.
PresentedKeys ==
    {kr \in ActiveKeys \X Regions : ItemAt(canvas, kr[2]) = kr[1]}

\* The row key_press appended first is the row of this peck in the trial as it
\* stood when the key was pecked.
PeckRowFirst(n, k) ==
    /\ Len(n.session_data_frame) > Len(session_data_frame)
    /\ LET row == n.session_data_frame[Len(session_data_frame) + 1] IN
         /\ IF HasRejection(k)
            THEN row.LocationEvent \in { "rejection_key_peck", "rejection-informative_peck",
                                         "rejection-noninformative_peck" }
            ELSE row.LocationEvent = PeckTag(k)
         /\ row.TrialNum = current_trial_counter
         /\ row.TrialType = trial_type
         /\ row.TrialStage = trial_stage
         /\ row.RejectedTrial = rejected_trial
         /\ row.TrialFR = choice_key_FR

\* No later row of the same step is a peck's.
OnePeckRow(n) ==
    \A i \in (Len(session_data_frame) + 2)..Len(n.session_data_frame) :
        n.session_data_frame[i].LocationEvent \in {"reinforcer_provided", "SessionEnds"}

\* C20: whichever presented key is pecked, in either phase and in every trial
\* type, key_press appends one row for the peck, and that row carries the
\* trial number, trial type, stage, FR and rejected flag the session had when
\* the key was pecked.
C20_EveryPeckLogged ==
    pc = "running" =>
        \A kr \in PresentedKeys :
            \A rnd \in RandomResults([S EXCEPT !.choice = kr[1]], Draws) :
                LET n == key_press(S, kr[2], kr[1], rnd) IN
                PeckRowFirst(n, kr[1]) /\ OnePeckRow(n)

----------------------------------------------------------------------------
(* C21 *)

\* A click at region r that lands on no key: the binding of the background
\* item runs if one is there, nothing runs if the canvas is bare.
InactiveClick(s, r) ==
    IF ItemAt(s.canvas, r) = "bkgrd" THEN write_data(s, r, s.canvas.bkgrd) ELSE s

\* The click left one row, of a background or ITI peck, and nothing else.
LoggedOnly(n, r) ==
    /\ ~n.exc
    /\ Len(n.session_data_frame) = Len(session_data_frame) + 1
    /\ n.session_data_frame[Len(n.session_data_frame)].LocationEvent
          \in {"background_peck", "ITI_peck"}
    /\ n.session_data_frame[Len(n.session_data_frame)].Xcord = r
    /\ [n EXCEPT !.session_data_frame = session_data_frame] = S

\* C21: at every point of a running session a click on a place where no key
\* is shown appends one background_peck or ITI_peck row and changes nothing
\* else.
C21_InactiveClickLogged ==
    pc = "running" =>
        \A r \in Regions :
            ItemAt(canvas, r) \in {"none", "bkgrd"} => LoggedOnly(InactiveClick(S, r), r)

----------------------------------------------------------------------------
(* C22 *)

\* The raw tags write_data is called with.
RawTags ==
    { "left_choice_key_peck", "right_choice_key_peck",
      "ll_feedback_key_peck", "lr_feedback_key_peck",
      "rl_feedback_key_peck", "rr_feedback_key_peck",
      "rejection-informative_peck", "rejection-noninformative_peck",
      "rejection_key_peck", "background_peck", "ITI_peck",
      "reinforcer_provided", "SessionEnds" }

\* The canonical tags of the four feedback stimuli with their calibrated colours.
StimulusTags ==
    { << "informative_Splus_peck", settings_dict.Iplus >>,
      << "informative_Sminus_peck", settings_dict.Iminus >>,
      << "noninformative_Splus_peck", settings_dict.NIplus >>,
      << "noninformative_Sminus_peck", settings_dict.NIminus >> }

\* The canonical tags the rule allows for a raw tag.
Canonical(raw) ==
    IF raw \in {"left_choice_key_peck", "right_choice_key_peck"}
    THEN { IF (raw = "left_choice_key_peck") <=> (settings_dict.side = "Left")
           THEN "informative_key_peck" ELSE "uninformative_key_peck" }
    ELSE IF raw \in { "ll_feedback_key_peck", "lr_feedback_key_peck",
                      "rl_feedback_key_peck", "rr_feedback_key_peck" }
    THEN { st[1] : st \in { x \in StimulusTags : x[2] = ColorOfKey(S, KeyOfPeck(raw)) } }
    ELSE IF raw \in { "rejection-informative_peck", "rejection-noninformative_peck",
                      "rejection_key_peck" }
    THEN { "rejection_key_peck" }
    ELSE { raw }

\* C22: once the settings are read, write_data translates every raw tag by the
\* rule (a choice-key peck by the informative side of the settings, a
\* feedback-key peck by the colour of the key, a rejection tag to
\* rejection_key_peck, any other tag to itself), the rule names one tag only,
\* and every row of the data frame pairs its raw tag with that translation.
C22_TagsTranslated ==
    pc = "running" =>
        /\ \A raw \in RawTags :
              /\ ExpOutcome(S, raw) \in Canonical(raw)
              /\ Cardinality(Canonical(raw)) = 1
        /\ \A i \in 2..Len(session_data_frame) :
              /\ session_data_frame[i].LocationEvent \in RawTags
              /\ session_data_frame[i].ExperimentalEvent
                    \in Canonical(session_data_frame[i].LocationEvent)

\* With the informative side on the right, a peck on the left choice key and a
\* peck on a feedback key of the left are in the data frame, translated.
C22_Witness ==
    /\ settings_dict.side = "Right"
    /\ \E i \in 2..Len(session_data_frame) :
          /\ session_data_frame[i].LocationEvent = "left_choice_key_peck"
          /\ session_data_frame[i].ExperimentalEvent = "uninformative_key_peck"
    /\ \E i \in 2..Len(session_data_frame) :
          /\ session_data_frame[i].LocationEvent \in {"ll_feedback_key_peck", "lr_feedback_key_peck"}
          /\ session_data_frame[i].ExperimentalEvent
                \in {"noninformative_Splus_peck", "noninformative_Sminus_peck"}

----------------------------------------------------------------------------
(* C23 *)

\* Two calls of write_comp_data in succession, nothing between them.
FlushedTwice(e1, e2) == write_comp_data(write_comp_data(S, e1), e2)

\* The session has rows to write and write_data can run.
Flushable == pc = "running" /\ trial_stage # UnsetInt

\* The second call left the file of the first, and neither changed the data
\* frame or anything but the file.
SameFile(e1, e2) ==
    /\ FlushedTwice(e1, e2).csv_file = write_comp_data(S, e1).csv_file
    /\ write_comp_data(S, e1).session_data_frame = session_data_frame
    /\ [FlushedTwice(e1, e2) EXCEPT !.csv_file = csv_file] = S

----------------------------------------------------------------------------
(* C24 *)

\* The rows of the data frame the file does not hold.
Unsaved == {i \in 2..Len(session_data_frame) : i > Len(csv_file)}

\* The file holds the data frame as it was when last written.
FileIsPrefix ==
    /\ Len(csv_file) <= Len(session_data_frame)
    /\ csv_file = SubSeq(session_data_frame, 1, Len(csv_file))

C24_OnlyCurrentTrialUnsaved ==
    (record_data /\ pc # "start_screen") =>
        /\ FileIsPrefix
        /\ \A i \in Unsaved : session_data_frame[i].TrialNum = current_trial_counter
        /\ pc = "exited" => Unsaved = {}

----------------------------------------------------------------------------
(* C25 *)

PreTraining == training_phase = 0 /\ pc = "running"

\* The trial has begun and its reinforcer has not been given.
TrialOpen == ActiveKeys # {} \/ timers = << "initial_links_stage" >>

C25_ReducedMachine ==
    PreTraining =>
        /\ ActiveKeys \in {{}, {trial_type}}
        /\ ActiveKeys # {} => choice_key_FR \in 1..preTraining_FR
        /\ trial_stage \in {UnsetInt, 0}
        /\ ~rejected_trial
        /\ feedback_stimulus = Unset
        /\ timers \in {<< "ITI" >>, << "initial_links_stage" >>, << >>}
        /\ (timers = << >>) <=> (ActiveKeys # {})
        /\ reinforcers_provided = current_trial_counter - (IF TrialOpen THEN 1 ELSE 0)

\* A step of the session in pre-training.
C25_Count ==
    /\ current_trial_counter' # current_trial_counter
          => (choice_key_FR' = preTraining_FR /\ timers' = << "initial_links_stage" >>)
    /\ (current_trial_counter' = current_trial_counter /\ choice_key_FR' # choice_key_FR)
          => /\ ActiveKeys = {trial_type}
             /\ choice_key_FR' = choice_key_FR - 1
             /\ IF choice_key_FR' = 0
                THEN hopper' = "On" /\ reinforcers_provided' = reinforcers_provided + 1
                     /\ ActiveKeys' = {}
                ELSE hopper' = "Off" /\ reinforcers_provided' = reinforcers_provided
                     /\ ActiveKeys' = ActiveKeys
    /\ hopper' = "On" => (choice_key_FR' = 0 /\ choice_key_FR = 1)
    /\ Len(session_data_frame') > Len(session_data_frame)
         /\ session_data_frame'[Len(session_data_frame')].LocationEvent
               \in {"background_peck", "ITI_peck"}
          => UNCHANGED << choice_key_FR, hopper, timers, reinforcers_provided, canvas >>

\* C25: in pre-training a trial shows one key, that of its trial type; the
\* count of presses still due starts at the FR in the ITI, goes down by one
\* with each press of the key and with nothing else (a background peck leaves
\* it), and food is given on the press that brings it to zero and on no other
\* step; the feedback stage and the rejection interval are never entered, and
\* the reinforcers given equal the trials completed.
C25_PreTrainingFR ==
    /\ []C25_ReducedMachine
    /\ [][(PreTraining /\ pc' = "running") => C25_Count]_vars

\* With an FR of two, the second press of the first trial's key has brought
\* food.
C25_Witness ==
    /\ PreTraining
    /\ preTraining_FR = 2
    /\ choice_key_FR = 0
    /\ hopper = "On"
    /\ reinforcers_provided = 1
    /\ current_trial_counter = 1

----------------------------------------------------------------------------
(* C26 *)

\* int() of the FR field raised in a pre-training session.
FRNotAnInteger == training_phase = 0 /\ preTraining_FR = UnsetInt

\* first_ITI has set the session up: the trial list is sized and ordered.
OrderGenerated == trials_per_session # UnsetInt

\* The session shows nothing and runs nothing.
NotStarted ==
    /\ ~OrderGenerated
    /\ timers = << >>
    /\ current_trial_counter = 0
    /\ trial_stage = UnsetInt

\* C26: a pre-training session whose FR field holds no integer never shows the
\* start screen, never generates a trial order, never has a timer pending and
\* never enters an ITI or a trial.
C26_BadFRRefused ==
    FRNotAnInteger => (pc # "start_screen" /\ NotStarted)

----------------------------------------------------------------------------
(* C27 *)

\* The settings file is absent or has no row of the subject, or the row has a
\* duration that is no number or an informative side other than Left and Right.
Miscalibrated == settings_dict \notin SettingsRows

\* C27: with the subject's settings missing or malformed no trial order is
\* generated, no timer is scheduled and no trial is entered.
C27_BadSettingsRefused ==
    Miscalibrated => NotStarted

----------------------------------------------------------------------------
(* C28 *)

\* The quota list the forced trial under way draws from has no token left.
QuotaEmpty ==
    IF trial_type = "forced_choice-informative"
    THEN forced_I_choice_outcome_list = << >>
    ELSE /\ trial_type = "forced_choice-noninformative"
         /\ \/ forced_NI_choice_outcome_list = << >>
            \/ forced_NI_choice_feedback_list = << >>

\* The step enters the feedback stage.
FeedbackEntered == trial_stage = 0 /\ trial_stage' = 1

----------------------------------------------------------------------------
(* C29 *)

\* The rows of a data frame that record a reinforcer.
ReinforcerRows(frame) ==
    {i \in 2..Len(frame) : frame[i].LocationEvent = "reinforcer_provided"}

C29_CounterMatchesLog ==
    /\ reinforcers_provided = Cardinality(ReinforcerRows(session_data_frame))
    /\ reinforcers_provided <= current_trial_counter

\* The step gives a reinforcer: one more is counted, the hopper goes on, one
\* reinforcer_provided row is the last appended, the ITI is the one timer.
C29_Entry ==
    /\ reinforcers_provided' = reinforcers_provided + 1
    /\ hopper = "Off" /\ hopper' = "On"
    /\ ReinforcerRows(session_data_frame')
          = ReinforcerRows(session_data_frame) \cup {Len(session_data_frame')}
    /\ Len(session_data_frame') > Len(session_data_frame)
    /\ timers' = << "ITI" >>
    /\ canvas'.items = << >>

\* C29: every step that changes the reinforcer counter or raises the hopper
\* or appends a reinforcer_provided row does all of it at once: the counter
\* goes up by one, the hopper goes on, one reinforcer_provided row is
\* appended and the ITI is scheduled; so the counter always equals the number
\* of reinforcer_provided rows and never exceeds the trial counter.
C29_ReinforceCountsOnce ==
    /\ []C29_CounterMatchesLog
    /\ [][(\/ reinforcers_provided' # reinforcers_provided
           \/ (hopper' = "On" /\ hopper = "Off")
           \/ ReinforcerRows(session_data_frame') # ReinforcerRows(session_data_frame))
             => C29_Entry]_vars

\* A main-phase trial has been reinforced after its feedback.
C29_Witness ==
    /\ ChoiceSession
    /\ reinforcers_provided = 1
    /\ Cardinality(ReinforcerRows(session_data_frame)) = 1
    /\ hopper = "On"
    /\ timers = << "ITI" >>

----------------------------------------------------------------------------
(* C30 *)

\* The choice key on the informative side of the settings, and the other.
InformativeKey ==
    IF settings_dict.side = "Left" THEN "left_choice_key" ELSE "right_choice_key"

NoninformativeKey ==
    IF settings_dict.side = "Left" THEN "right_choice_key" ELSE "left_choice_key"

\* The keys the trial type calls for.
KeysOfType ==
    CASE trial_type = "forced_choice-informative" -> {InformativeKey}
      [] trial_type = "forced_choice-noninformative" -> {NoninformativeKey}
      [] trial_type = "rejection-informative" -> {InformativeKey, "rejection_key"}
      [] trial_type = "rejection-noninformative" -> {NoninformativeKey, "rejection_key"}
      [] trial_type = "free_choice" -> {InformativeKey, NoninformativeKey}

\* The initial links of a main-phase trial that has not been rejected.
FirstInitialLinksStage == ChoiceSession /\ trial_stage = 0 /\ ~rejected_trial

\* C30: in the initial links of a main-phase trial, before any rejection, the
\* keys shown are those of the trial type (the informative-side key for
\* forced_choice-informative, the other side's for forced_choice-noninformative,
\* that key and the rejection key for the two rejection types, both choice
\* keys and no rejection key for free_choice), each at its own place: the
\* choice keys left and right, the rejection key in the centre.
C30_KeysByTrialType ==
    FirstInitialLinksStage =>
        /\ ActiveKeys = KeysOfType
        /\ \A k \in KeysOfType : ItemAt(canvas, KeyRegion(k)) = k

\* A rejection-informative trial shows the informative key, here the right
\* one, and the rejection key.
C30_Witness ==
    /\ FirstInitialLinksStage
    /\ trial_type = "rejection-informative"
    /\ settings_dict.side = "Right"
    /\ ActiveKeys = {"right_choice_key", "rejection_key"}

----------------------------------------------------------------------------
(* C31 *)

\* The feedback of a trial whose chosen key is the one on the informative side.
InformativeChoiceFeedback == InFeedback /\ choice = InformativeKey

\* C31: while the feedback key of a choice on the informative side is shown,
\* whatever the trial type and whether or not the trial was rejected first,
\* the key has the informative S+ colour exactly if the trial is to be
\* reinforced (the pending timer is provide_food's) and the informative S-
\* colour exactly if it is not (the pending timer is the ITI's).
C31_InformativeColourTellsOutcome ==
    InformativeChoiceFeedback =>
        /\ ColorOfKey(S, feedback_stimulus) \in {settings_dict.Iplus, settings_dict.Iminus}
        /\ ColorOfKey(S, feedback_stimulus) = settings_dict.Iplus
              <=> timers = << "provide_food" >>
        /\ ColorOfKey(S, feedback_stimulus) = settings_dict.Iminus
              <=> timers = << "ITI" >>
        /\ KeyRegion(feedback_stimulus) = KeyRegion(choice)

\* A rejection-noninformative trial was rejected, the informative key then
\* chosen, and its S+ is shown.
C31_Witness ==
    /\ InformativeChoiceFeedback
    /\ trial_type = "rejection-noninformative"
    /\ rejected_trial
    /\ ColorOfKey(S, feedback_stimulus) = settings_dict.Iplus
    /\ timers = << "provide_food" >>

----------------------------------------------------------------------------
(* C32 *)

\* The initial links of a main-phase trial with the non-informative key shown.
NoninformativeKeyOffered ==
    ChoiceSession /\ trial_stage = 0 /\ NoninformativeKey \in ActiveKeys

\* What feedback_stage resolves for a peck on the non-informative key when the
\* random module returns rnd: whether food is to follow, and the colour shown.
ResolvedPair(rnd) ==
    LET n == feedback_stage([S EXCEPT !.choice = NoninformativeKey], rnd)
    IN  << Scheduled(n.timers, "provide_food"), ColorOfKey(S, n.feedback_stimulus) >>

\* All that the random module can make of such a peck.
ResolvedPairs ==
    { ResolvedPair(rnd) : rnd \in RandomResults([S EXCEPT !.choice = NoninformativeKey], Draws) }

NoninformativeColours == {settings_dict.NIplus, settings_dict.NIminus}

\* C32: for a peck on the non-informative key the outcome and the colour are
\* resolved apart.  On a trial that is not forced the two uniform draws give
\* all four pairs of (reinforced or not, S+ or S- colour).  On a forced trial
\* the pairs are all those of an outcome token of the one quota list with a
\* colour token of the other, so all four while both lists hold both kinds, as
\* they do at the first forced trial.
C32_OutcomeAndColourApart ==
    NoninformativeKeyOffered =>
        IF trial_type = "forced_choice-noninformative"
        THEN /\ ResolvedPairs
                  = { << o = "win", c >> : o \in Elements(forced_NI_choice_outcome_list),
                                           c \in Elements(forced_NI_choice_feedback_list) }
             /\ Len(forced_NI_choice_outcome_list) = ForcedTrialsAssumed
                   => ResolvedPairs = BOOLEAN \X NoninformativeColours
        ELSE ResolvedPairs = BOOLEAN \X NoninformativeColours

\* A forced non-informative trial shows the S+ colour and is not reinforced.
C32_Witness ==
    /\ InFeedback
    /\ trial_type = "forced_choice-noninformative"
    /\ ColorOfKey(S, feedback_stimulus) = settings_dict.NIplus
    /\ timers = << "ITI" >>

----------------------------------------------------------------------------
(* C33 *)

\* The place of the feedback key.
FeedbackKeyRegion == KeyRegion(feedback_stimulus)

\* What a peck on the feedback key leaves, whatever the random module would
\* return if asked.
FeedbackKeyPecks ==
    { key_press(S, FeedbackKeyRegion, feedback_stimulus, rnd)
        : rnd \in RandomResults([S EXCEPT !.choice = feedback_stimulus], Draws) }

\* The peck left one row of the feedback stage, the key's, and nothing else.
FeedbackPeckOnlyLogged(n) ==
    /\ ~n.exc
    /\ Len(n.session_data_frame) = Len(session_data_frame) + 1
    /\ n.session_data_frame[Len(n.session_data_frame)].LocationEvent = PeckTag(feedback_stimulus)
    /\ n.session_data_frame[Len(n.session_data_frame)].TrialStage = 1
    /\ [n EXCEPT !.session_data_frame = session_data_frame] = S

\* C33: while the feedback key is shown, a peck on it and a peck beside it
\* each append one row and change nothing else: the stage, the choice, the
\* feedback stimulus, the quota lists, the counters, the canvas and the
\* pending timer stay as they are.
C33_FeedbackPecksOnlyLogged ==
    InFeedback =>
        /\ ItemAt(canvas, FeedbackKeyRegion) = feedback_stimulus
        /\ \A n \in FeedbackKeyPecks : FeedbackPeckOnlyLogged(n)
        /\ \A r \in Regions \ {FeedbackKeyRegion} : LoggedOnly(InactiveClick(S, r), r)

\* The feedback key has been pecked and the feedback timer is still the one
\* pending.
C33_Witness ==
    /\ InFeedback
    /\ session_data_frame[Len(session_data_frame)].LocationEvent = PeckTag(feedback_stimulus)
    /\ session_data_frame[Len(session_data_frame)].TrialStage = 1
    /\ timers \in {<< "provide_food" >>, << "ITI" >>}

----------------------------------------------------------------------------
(* C34 *)

\* The reject key has been pressed in this trial and the fixed interval it
\* started has not run out.
RejectionWait ==
    /\ ChoiceSession
    /\ rejected_trial
    /\ Scheduled(timers, "initial_links_stage")

\* The regions of the two choice keys.
ChoiceKeyRegions == {KeyRegion("left_choice_key"), KeyRegion("right_choice_key")}

\* What a click at region r leaves: the binding of the item it reaches runs.
ClicksAt(r) ==
    LET tag == ItemAt(canvas, r) IN
    IF tag = "none" THEN {S}
    ELSE IF tag = "bkgrd" THEN {write_data(S, r, canvas.bkgrd)}
    ELSE { key_press(S, r, tag, rnd) : rnd \in RandomResults([S EXCEPT !.choice = tag], Draws) }

\* C34: during the wait that follows a press of the reject key both choice
\* keys are under the covers, a click on either cover appends one
\* background_peck row and changes nothing else, and no click anywhere
\* records a choice, enters the feedback stage or sets a timer.
C34_ChoiceKeysOffDuringWait ==
    RejectionWait =>
        /\ trial_stage = 0
        /\ choice = "None"
        /\ \A r \in ChoiceKeyRegions :
              /\ ItemAt(canvas, r) = "bkgrd"
              /\ canvas.bkgrd = "background_peck"
              /\ LoggedOnly(InactiveClick(S, r), r)
        /\ \A r \in Regions : \A n \in ClicksAt(r) :
              /\ n.choice = choice
              /\ n.trial_stage = trial_stage
              /\ n.feedback_stimulus = feedback_stimulus
              /\ n.timers = timers
              /\ n.canvas = canvas

\* A cover was pecked during the wait.
C34_Witness ==
    /\ RejectionWait
    /\ session_data_frame[Len(session_data_frame)].LocationEvent = "background_peck"
    /\ session_data_frame[Len(session_data_frame)].Xcord \in ChoiceKeyRegions
    /\ session_data_frame[Len(session_data_frame)].TrialNum = current_trial_counter
    /\ Len(session_data_frame) - 1 \in RejectionPecks(current_trial_counter)

----------------------------------------------------------------------------
(* C35 *)

\* The interval between trials: ITI has run and the timer it set for
\* initial_links_stage has not come due.
ITIWait ==
    /\ pc = "running"
    /\ canvas.bkgrd = "ITI_peck"
    /\ ItemAt(canvas, "center") = "bkgrd"
    /\ Scheduled(timers, "initial_links_stage")

\* The step shows the keys of a new trial: it leaves the interval between
\* trials with keys on the screen.
NewTrialBegins ==
    /\ ITIWait
    /\ pc' = "running"
    /\ {ItemAt(canvas', r) : r \in Regions} \ {"none", "bkgrd"} # {}

\* C35: through the interval between trials, and at the step that shows the
\* keys of the next trial, the rejected flag is False and no choice is
\* recorded, whatever the trial before left.
C35_TrialStateReset ==
    /\ [](ITIWait => ~rejected_trial /\ choice = "None")
    /\ [][NewTrialBegins =>
            /\ ~rejected_trial' /\ choice' = "None"
            /\ trial_stage' = 0]_vars

\* The keys of the second trial are up, and the first trial was rejected,
\* then chosen and reinforced.
C35_Witness ==
    /\ ChoiceSession
    /\ current_trial_counter = 2
    /\ trial_stage = 0
    /\ ActiveKeys # {}
    /\ ~rejected_trial /\ choice = "None"
    /\ RejectionPecks(1) # {}
    /\ reinforcers_provided = 1

----------------------------------------------------------------------------
(* C36 *)

\* The stage a row was made in, told from its event where the event tells it:
\* the reinforcer and the pecks of the interval between trials belong to
\* Reinforce/ITI; in the main phase a peck on a choice key or on the reject
\* key belongs to InitialLinks and a peck on a feedback key to Feedback.
StageOfRow(row) ==
    IF row.LocationEvent \in {"reinforcer_provided", "ITI_peck"} THEN "Reinforce/ITI"
    ELSE IF training_phase # 1 THEN "NA"
    ELSE IF row.ExperimentalEvent \in {"informative_key_peck", "uninformative_key_peck",
                                       "rejection_key_peck"} THEN "InitialLinks"
    ELSE IF row.ExperimentalEvent \in {"informative_Splus_peck", "informative_Sminus_peck",
                                       "noninformative_Splus_peck",
                                       "noninformative_Sminus_peck"} THEN "Feedback"
    ELSE "NA"

\* The rows of the data frame whose event tells the stage.
StagedRows == { i \in 2..Len(session_data_frame) : StageOfRow(session_data_frame[i]) # "NA" }

\* Rows made in different stages carry different values in the stage column.
StagesApart ==
    \A i, j \in StagedRows :
        StageOfRow(session_data_frame[i]) # StageOfRow(session_data_frame[j])
            => session_data_frame[i].TrialStage # session_data_frame[j].TrialStage

\* The stage column can be filled in as soon as ITI has run.
StageDefinedFromFirstITI ==
    pc = "running" /\ canvas.bkgrd = "ITI_peck" /\ ItemAt(canvas, "center") = "bkgrd"
        => ~write_data(S, "center", "ITI_peck").exc

\* C36: the stage column of a row tells the stage it was made in, with one
\* value for InitialLinks, one for Feedback and one for Reinforce/ITI, and a
\* row can be written with its stage from the first ITI on.
C36_StageFieldTellsStage ==
    pc # "start_screen" => StagesApart /\ StageDefinedFromFirstITI

\* What the program does write: the stage column holds 0 or 1, the value last
\* assigned by initial_links_stage or feedback_stage.
StageZeroOrOne ==
    \A i \in 2..Len(session_data_frame) : session_data_frame[i].TrialStage \in {0, 1}

----------------------------------------------------------------------------
(* C37 *)

\* C37: at every moment of a session at most one timer set with root.after
\* is pending, whatever the order of clicks and expiries, and a step that
\* sets a timer starts with none pending or is the expiry of the one pending.
C37_OneStageTimer ==
    /\ [](Len(timers) <= 1)
    /\ [][timers' # timers /\ timers' # << >> =>
             \/ timers = << >>
             \/ Len(timers) = 1 /\ Len(timers') = 1 /\ canvas' # canvas]_vars

\* The feedback timer is the one pending in a trial whose fixed interval has
\* already run out, and the feedback key was pecked while it was pending.
C37_Witness ==
    /\ InFeedback
    /\ rejected_trial
    /\ RejectionPecks(current_trial_counter) # {}
    /\ Len(timers) = 1
    /\ session_data_frame[Len(session_data_frame)].TrialStage = 1

----------------------------------------------------------------------------
(* SpecFair: SpecSession with the scheduling of the Tk main loop: a timer
   set with root.after comes due, and a bird in front of keys it can peck
   goes on to peck one.  Each fairness condition is stated on the variables
   its step changes: the expiry of a timer takes it off the pending ones, and
   a peck on a key in the initial links counts down the FR or sets a timer. *)

\* The timers a callback or a peck can leave pending.
TimersLeft ==
    {<< >>, << "ITI" >>, << "initial_links_stage" >>, << "provide_food" >>}

\* The timer for callback comes due: it is pending no longer.
ComesDue(callback) ==
    /\ pc = "running"
    /\ Scheduled(timers, callback)
    /\ timers' \in TimersLeft

\* A peck on a key of the initial links (key_press, lines 908-955).
Responds ==
    /\ pc = "running"
    /\ timers = << >>
    /\ trial_stage = 0
    /\ {ItemAt(canvas, r) : r \in Regions} \ {"none", "bkgrd"} # {}
    /\ timers' \in TimersLeft
    /\ choice_key_FR' \in {choice_key_FR, choice_key_FR - 1}

SpecFair ==
    /\ SpecSession
    /\ WF_timers(ComesDue("ITI"))
    /\ WF_timers(ComesDue("initial_links_stage"))
    /\ WF_timers(ComesDue("provide_food"))
    /\ WF_<< timers, choice_key_FR >>(Responds)

----------------------------------------------------------------------------
(* C38 *)

\* The program has left through exit_program.
SessionEnd == pc = "exited"

\* The keys of a trial are up and wait for a peck.
InitialLinks ==
    /\ pc = "running"
    /\ timers = << >>
    /\ trial_stage = 0
    /\ ActiveKeys # {}

\* The choice is made or the last peck of the FR given: the feedback timer
\* or the hopper timer is running.
ResponseGiven ==
    /\ pc = "running"
    /\ Scheduled(timers, "provide_food") \/ Scheduled(timers, "ITI")
    /\ current_trial_counter > 0

\* C38: with timers that come due, a trial whose response is given goes on
\* to the interval between trials or to the end of the session, and from the
\* interval to the keys of the next trial; a running session with no timer
\* pending stands in InitialLinks; and with a bird that goes on pecking the
\* keys it can reach, a running session reaches its end.
C38_SessionRunsToItsEnd ==
    /\ ResponseGiven ~> (ITIWait \/ SessionEnd)
    /\ ITIWait ~> InitialLinks
    /\ [](pc = "running" /\ timers = << >> => InitialLinks)
    /\ pc = "running" ~> SessionEnd

\* A session of the main phase has run through all its trials, some of them
\* reinforced, and left.
C38_Witness ==
    /\ SessionEnd
    /\ training_phase = 1
    /\ current_trial_counter = trials_per_session
    /\ trials_per_session = ChoiceTrials
    /\ reinforcers_provided > 0
    /\ timers = << >>

----------------------------------------------------------------------------
(* SpecOrderFair: SpecOrder with shuffles that are fair: while the loop of
   lines 518-530 runs, a pass whose shuffle is approved comes, and the
   statement after the loop is reached once its condition fails. *)

\* A pass of the loop whose shuffle is approved: the order grows by it.
AcceptedPass ==
    /\ pc = "ordering"
    /\ Len(trial_order_list) # trials_per_session
    /\ trial_order_list' \in
          { trial_order_list \o q
              : q \in {x \in ShuffleOutcomes(trial_option_list, OrderShuffles) : Approved(x)} }

\* The loop's condition fails and first_ITI goes on to line 546.
LoopLeft ==
    /\ pc = "ordering"
    /\ Len(trial_order_list) = trials_per_session
    /\ pc' = "running"

SpecOrderFair ==
    /\ SpecOrder
    /\ WF_trial_order_list(AcceptedPass)
    /\ WF_pc(LoopLeft)

----------------------------------------------------------------------------
(* C39 *)

\* The while loop of first_ITI is running.
Ordering == pc = "ordering"

\* The shuffles accepted so far.
AcceptedShuffles == Len(trial_order_list) \div Len(trial_option_list)

\* C39: while the order is made its length is a whole number of accepted
\* shuffles and at most trials_per_session, and another rejected pass is
\* always possible; a pass whose shuffle is rejected leaves the order as it
\* was and an accepted one appends the shuffle whole; the loop is left
\* exactly with trials_per_session entries, after one accepted shuffle in
\* pre-training and two in the main phase; and with fair shuffles the loop
\* is left.
C39_OrderLoopEndsByAcceptance ==
    /\ [](Ordering =>
            /\ Len(trial_order_list) <= trials_per_session
            /\ Len(trial_order_list) = AcceptedShuffles * Len(trial_option_list)
            /\ Len(trial_order_list) # trials_per_session =>
                  \E q \in ShuffleOutcomes(trial_option_list, OrderShuffles) : ~Approved(q))
    /\ [][Ordering /\ Ordering' =>
            IF Approved(trial_option_list')
            THEN trial_order_list' = trial_order_list \o trial_option_list'
            ELSE trial_order_list' = trial_order_list]_vars
    /\ [][Ordering /\ ~Ordering' =>
            /\ Len(trial_order_list) = trials_per_session
            /\ trial_order_list' = trial_order_list
            /\ AcceptedShuffles = (IF training_phase = 0 THEN 1 ELSE 2)]_vars
    /\ Ordering ~> ~Ordering

\* The main-phase loop has accepted one shuffle and just rejected another:
\* the order holds the first fifty trials alone.
C39_Witness ==
    /\ Ordering
    /\ training_phase = 1
    /\ AcceptedShuffles = 1
    /\ Len(trial_order_list) < trials_per_session
    /\ ~Approved(trial_option_list)

----------------------------------------------------------------------------
(* SpecClock: as Spec, with the clock followed as far as self.session_duration
   (line 362, ninety minutes after the MainScreen is made): at any moment of
   the session the clock may pass it. *)

\* datetime.now() reaches self.session_duration.
SessionDurationPasses ==
    /\ pc \in {"start_screen", "running"}
    /\ session_duration = "ahead"
    /\ Commit([S EXCEPT !.session_duration = "passed"])

NextClock ==
    \/ SessionDurationPasses
    \/ Space(Open)
    \/ KeyPeck(Open)
    \/ BackgroundPeck(Open)
    \/ TimerITI(Open)
    \/ TimerInitialLinks(Open)
    \/ TimerProvideFood(Open)
    \/ Escape(Open)

SpecClock == Init /\ [][NextClock]_vars

----------------------------------------------------------------------------
(* C40 *)

\* C40: once the clock has passed self.session_duration, the next run of ITI
\* ends the session and starts no further trial, whatever the trial counter.
C40_TimeLimitEndsSession ==
    [][ITIRuns /\ session_duration = "passed" =>
            /\ pc' = "exited"
            /\ current_trial_counter' = current_trial_counter
            /\ ~Scheduled(timers', "initial_links_stage")]_vars

\* What ITI does instead: the clock passed or not, it starts the next trial
\* unless the trial counter has reached trials_per_session.
ITIEndsByCountAlone ==
    [][ITIRuns /\ tracebacks' = tracebacks /\ current_trial_counter # trials_per_session
          /\ Len(timers') > 0 =>
            /\ pc' = "running"
            /\ current_trial_counter' = current_trial_counter + 1
            /\ timers' = << "initial_links_stage" >>]_vars

\* The clock has passed self.session_duration and a further trial is under way.
TrialAfterTimeLimit ==
    /\ pc = "running"
    /\ session_duration = "passed"
    /\ current_trial_counter = 2
    /\ ActiveKeys # {}
====
